---- MODULE Spec2Model ----
(***************************************************************************)
(* Digital-twin front end (src/frontend/main.js, the second, complete copy *)
(* of the program that starts at line 1072).                               *)
(*                                                                         *)
(* The browser runs one handler at a time; a handler is suspended only at  *)
(* an await of a Persistence Service call.  Every action below is one      *)
(* uninterrupted piece of a handler: from its start to its first await,    *)
(* from the resumption after an await to the next one, or to its end.      *)
(*                                                                         *)
(* Representation.                                                         *)
(*  - A mesh name / registry key is the record [tag, n]: the GLB node      *)
(*    "Galaxy_VL_1" is [tag |-> "Galaxy_VL", n |-> 1] and the string       *)
(*    `db_${id}` is [tag |-> "db_", n |-> id].  name.includes(type) is     *)
(*    name.tag = type and name.startsWith('db_') is name.tag = "db_".      *)
(*  - Coordinates are integers in units of 0.5 (the keyboard step `speed`),*)
(*    so 6.0 is 12.                                                        *)
(*  - A mesh is identified by its index in `meshes` (object identity).     *)
(*    0 stands for null.                                                   *)
(***************************************************************************)
EXTENDS Integers, Sequences, FiniteSets, TLC

\* ------------------------------------------------------------ bounds
MaxDevices == 2
MaxMeshes == 4
MaxCalls == 4
MaxCoord == 1
\* health scores range over 0..MaxScore, whole days remaining over -MaxDays..MaxDays
MaxScore == 100
MaxDays == 100
\* material objects ever created
MaxMaterials == 12

\* ------------------------------------------------------------ program constants
DefaultFloorHeight == 12
NoClip == 1000
speed == 1
HtmlFloors == 3
\* nodeView.scale is kept in thousandths: 1000 is the scale 1
ScaleUnit == 1000
\* renderNodeView / getNodeAtPosition: scale2d = 30 pixels per metre, which is
\* 15 per half metre
scale2d == 15
\* getNodeAtPosition: distance < 20
HitRadius == 20
\* How far from the canvas centre the pan offset is followed (pixels).
MaxPan == 40
\* Longest text typed into a field of the setup wizard.
MaxText == 2

\* ------------------------------------------------------------ environment
\* Type tags of the product catalogue that the model uses.
Types == {"Galaxy_VL", "EVlink_Pro"}

\* The device nodes of /Final.glb, in traversal order: one UPS unit; the asset
\* holds no EVlink_Pro node.
GlbNodes ==
  << [name |-> [tag |-> "Galaxy_VL", n |-> 1], position |-> [x |-> 0, y |-> 0, z |-> 0]] >>

\* World positions a user or the service can give a device.
Positions == { [x |-> 0, y |-> 0, z |-> 0], [x |-> 1, y |-> 10, z |-> 0] }

\* Facility configurations the service can return (floor_height 0: absent).
Configs == { [floor_height |-> 0, num_floors |-> 3], [floor_height |-> 8, num_floors |-> 2] }

DeviceIds == 1..MaxDevices

\* Serial numbers a user can search for: those the service assigns and those
\* the asset-load callback makes up for template devices.
Serials == { [tag |-> "SRV", n |-> i] : i \in DeviceIds }
             \cup { [tag |-> t, n |-> i] : t \in Types, i \in 1..2 }

\* What a user can type in the search box: a device name or a serial number.
Queries == { [byName |-> TRUE, name |-> t, serial |-> [tag |-> "", n |-> 0]] : t \in Types }
             \cup { [byName |-> FALSE, name |-> "", serial |-> sn] : sn \in Serials }

\* Registry keys a caller can name: db_ keys (db_0 is never assigned) and GLB
\* node names.
Keys == { [tag |-> "db_", n |-> i] : i \in 0..MaxDevices }
          \cup { [tag |-> t, n |-> i] : t \in Types, i \in 1..2 }

NULL == 0

VARIABLES
  store,                  \* Persistence Service: the set of device rows
  nextId,                 \* Persistence Service: next device id
  localStorageId,         \* localStorage 'currentWarehouseId' (NULL: absent)
  CURRENT_WAREHOUSE_ID,
  glbLoaded,              \* the GLTFLoader callback has run
  meshes,                 \* every THREE.Mesh created so far, with the tweens that target it
  DEVICE_DB,              \* registry, in key insertion order
  interactableMeshes,     \* sequence of mesh ids
  pendingDatabaseDevices, \* window.pendingDatabaseDevices
  state3D,                \* [selectedMesh, blinkTween]; a tween is named by its target mesh
  infoPanel,              \* key shown in the info panel, or "hidden"
  currentView,            \* '3d' or 'network'
  floorPlaneConstant,     \* floorPlane.constant
  floorSelectValue,       \* value of the floor selector: [kind, n]
  floorOptions,           \* the floor selector offers 'all' and 1..floorOptions
  FLOOR_HEIGHT,
  isDragging,             \* keyboard reposition mode
  draggedMesh,
  tasks,                  \* suspended handlers, each waiting for one remote call
  calls,                  \* remote calls issued so far
  lastAlert,              \* the last message shown by alert()
  thrown,                 \* how the last handler ended: "none", "TypeError" or "unhandled_rejection"
  health,                 \* health score of the device the views render
  daysRemaining,          \* whole days until that device's warranty expires
  rendered,               \* what each view shows for that device: per view, {} or {value}
  nodeView,               \* 2D viewport: pan offset, zoom scale, drag and hover state
  materialGraph,          \* material objects and the meshes that refer to them
  setup                   \* setup wizard page: currentStep, warehouseConfig, form fields

vars == << store, nextId, localStorageId, CURRENT_WAREHOUSE_ID, glbLoaded, meshes,
           DEVICE_DB, interactableMeshes, pendingDatabaseDevices, state3D,
           infoPanel, currentView, floorPlaneConstant,
           floorSelectValue, floorOptions, FLOOR_HEIGHT, isDragging, draggedMesh,
           tasks, calls, lastAlert, thrown, health, daysRemaining, rendered,
           nodeView, materialGraph, setup >>

serverVars == << store, nextId >>
twinVars == << meshes, DEVICE_DB, interactableMeshes, pendingDatabaseDevices >>
selVars == << state3D, infoPanel >>
floorVars == << floorPlaneConstant, floorSelectValue, floorOptions, FLOOR_HEIGHT >>
dragVars == << isDragging, draggedMesh >>
envVars == << localStorageId, CURRENT_WAREHOUSE_ID, glbLoaded >>
viewVars == << health, daysRemaining, rendered, nodeView, materialGraph, setup >>
programVars == << serverVars, envVars, twinVars, selVars, currentView, floorVars, dragVars,
                  tasks, calls, lastAlert, thrown >>

\* ------------------------------------------------------------ helpers
Range(s) == { s[i] : i \in 1..Len(s) }

\* Array.prototype.find / indexOf: given for each element whether it passes,
\* the first index that does, 0 if none.
FirstTrue(passes) ==
  IF \E i \in 1..Len(passes) : passes[i]
  THEN CHOOSE i \in 1..Len(passes) : passes[i] /\ \A j \in 1..(i-1) : ~passes[j]
  ELSE 0

RemoveAt(s, i) == SubSeq(s, 1, i-1) \o SubSeq(s, i+1, Len(s))

\* Math.floor(a / b) for b > 0
FloorDiv(a, b) == a \div b

DbKey(id) == [tag |-> "db_", n |-> id]

\* DEVICE_DB[key] (NULL when the key is absent)
DbHas(db, key) == \E i \in 1..Len(db) : db[i].key = key
DbGet(db, key) == db[FirstTrue([i \in 1..Len(db) |-> db[i].key = key])]
\* a registry that records every assignment as a new entry
DbPutAppends(db, entry) == Append(db, entry)
\* DEVICE_DB[key] = entry keeps the position of an existing key
DbPut(db, entry) ==
  IF DbHas(db, entry.key)
  THEN [i \in 1..Len(db) |-> IF db[i].key = entry.key THEN entry ELSE db[i]]
  ELSE Append(db, entry)
\* The db_ keys of a registry.
PersistedKeys(db) == { db[i].key : i \in { j \in 1..Len(db) : db[j].key.tag = "db_" } }
\* delete DEVICE_DB[key]
DbDelete(db, key) == SelectSeq(db, LAMBDA e : e.key # key)

\* ------------------------------------------------------------ Persistence Service rows
\* spawnDeviceAndSave: Math.max(1, Math.floor(position.y / FLOOR_HEIGHT) + 1)
FloorNumberOf(y, floorHeight) ==
  IF FloorDiv(y, floorHeight) + 1 >= 1 THEN FloorDiv(y, floorHeight) + 1 ELSE 1

\* floor_number is what the row's creator sent; a row whose creation the model
\* does not show was created under the default floor height.
Row(id, type, pos) ==
  [id |-> id, mesh_identifier |-> type, position |-> pos,
   serial_number |-> [tag |-> "SRV", n |-> id],
   floor_number |-> FloorNumberOf(pos.y, DefaultFloorHeight)]

\* The rows of the store as the array the service returns (ascending id).
RECURSIVE RowsFrom(_, _)
RowsFrom(rows, id) ==
  IF id > MaxDevices + 1 THEN << >>
  ELSE (IF \E r \in rows : r.id = id
        THEN << CHOOSE r \in rows : r.id = id >> ELSE << >>) \o RowsFrom(rows, id + 1)

StoreRows(rows) == RowsFrom(rows, 1)

\* ------------------------------------------------------------ meshes
NewMesh(name, material, pos) ==
  [name |-> name, dbKey |-> name, material |-> material, originalMat |-> material,
   position |-> pos, inScene |-> TRUE, disposed |-> 0, blink |-> 0, fade |-> 0]

\* The part of the program state that spawning and removal work on.
Twin(ms, db, im, pend) ==
  [meshes |-> ms, DEVICE_DB |-> db, interactableMeshes |-> im, pending |-> pend]

\* interactableMeshes.find(m => m.name.includes(type)): mesh id or NULL
FindTemplate(ms, im, type) ==
  LET i == FirstTrue([k \in 1..Len(im) |-> ms[im[k]].name.tag = type])
  IN IF i = 0 THEN NULL ELSE im[i]

\* interactableMeshes.find(m => m.userData.dbKey === dbKey): mesh id or NULL
FindByKey(ms, im, key) ==
  LET i == FirstTrue([k \in 1..Len(im) |-> ms[im[k]].dbKey = key])
  IN IF i = 0 THEN NULL ELSE im[i]

spawnDeviceFromDatabase(tw, deviceData) ==
  LET templateMesh == FindTemplate(tw.meshes, tw.interactableMeshes, deviceData.mesh_identifier)
      dbKey == DbKey(deviceData.id)
      \* templateMesh.clone() shares the template's current material, which
      \* clone.material.clone() then copies, highlight included
      clone == NewMesh(dbKey, tw.meshes[templateMesh].material, deviceData.position)
      entry == [key |-> dbKey, db_id |-> deviceData.id, name |-> deviceData.mesh_identifier,
                serial |-> deviceData.serial_number, location |-> deviceData.floor_number]
  IN IF templateMesh = NULL
     THEN [tw EXCEPT !.pending = Append(@, deviceData)]
     ELSE [tw EXCEPT !.meshes = Append(@, clone),
                     !.DEVICE_DB = DbPut(@, entry),
                     !.interactableMeshes = Append(@, Len(tw.meshes) + 1)]

\* a loop that leaves the spawning of the devices to a later step
SpawnLater(tw, devices, i) == tw

\* devices.forEach(d => spawnDeviceFromDatabase(d)) over the first n elements
\* (forEach fixes its range before the first call)
RECURSIVE SpawnEach(_, _, _)
SpawnEach(tw, devices, i) ==
  IF i > Len(devices) THEN tw
  ELSE SpawnEach(spawnDeviceFromDatabase(tw, devices[i]), devices, i + 1)

\* ------------------------------------------------------------ selection
\* The selection-related state that select/deselect work on.
Sel(ms, st, panel, plane, fsel, fopts) ==
  [meshes |-> ms, state3D |-> st, infoPanel |-> panel,
   floorPlaneConstant |-> plane, floorSelectValue |-> fsel, floorOptions |-> fopts]

deselectAll3D(s, shouldResetCamera) ==
  LET t == s.state3D.blinkTween
      m == s.state3D.selectedMesh
      ms1 == IF t # NULL THEN [s.meshes EXCEPT ![t].blink = @ - 1] ELSE s.meshes
      ms2 == IF m # NULL THEN [ms1 EXCEPT ![m].material = ms1[m].originalMat] ELSE ms1
  IN [s EXCEPT !.meshes = ms2,
               !.state3D = [selectedMesh |-> NULL, blinkTween |-> NULL],
               !.floorPlaneConstant = IF shouldResetCamera THEN NoClip ELSE @]

\* The value of the <select>: 'all', a floor number, or '' (no option chosen).
AllFloors == [kind |-> "all", n |-> 0]
FloorValue(n) == [kind |-> "num", n |-> n]
\* select.value = v picks the option with that value; without one the value is ''
AssignFloorValue(v, options) ==
  IF v \in 1..options THEN FloorValue(v) ELSE [kind |-> "empty", n |-> 0]

\* Math.floor(center.y / FLOOR_HEIGHT) + 1; the bounding-box centre of a mesh
\* is taken to be its position.
FloorIndexOf(y, floorHeight) == FloorDiv(y, floorHeight) + 1

\* select3DMesh returns the new state and whether `data.health` threw
\* (DEVICE_DB has no entry for the mesh's key).
select3DMesh(s, db, mesh, floorHeight) ==
  LET d == deselectAll3D(s, FALSE)
      floorIndex == FloorIndexOf(d.meshes[mesh].position.y, floorHeight)
      key == d.meshes[mesh].dbKey
  IN IF ~DbHas(db, key)
     THEN [s |-> [d EXCEPT !.state3D.selectedMesh = mesh], thrown |-> "TypeError"]
     ELSE [s |-> [d EXCEPT !.state3D = [selectedMesh |-> mesh, blinkTween |-> mesh],
                           !.meshes[mesh].material = "emissive",
                           !.meshes[mesh].blink = @ + 1,
                           !.floorPlaneConstant = floorIndex * floorHeight,
                           !.floorSelectValue = AssignFloorValue(floorIndex, d.floorOptions),
                           !.infoPanel = key],
           thrown |-> "none"]

\* Seeded fault: select3DByKey that clears the selection before it looks the
\* key up.
select3DByKeyDeselectsFirst(s, db, im, dbKey, floorHeight) ==
  LET mesh == FindByKey(s.meshes, im, dbKey)
  IN IF mesh # NULL THEN select3DMesh(s, db, mesh, floorHeight)
     ELSE [s |-> deselectAll3D(s, FALSE), thrown |-> "none"]

\* select3DByKey
select3DByKey(s, db, im, dbKey, floorHeight) ==
  LET mesh == FindByKey(s.meshes, im, dbKey)
  IN IF mesh # NULL THEN select3DMesh(s, db, mesh, floorHeight)
     ELSE [s |-> s, thrown |-> "none"]

CurSel == Sel(meshes, state3D, infoPanel, floorPlaneConstant, floorSelectValue, floorOptions)

\* Write a selection state back to the variables.
SetSel(s) ==
  /\ meshes' = s.meshes
  /\ state3D' = s.state3D
  /\ infoPanel' = s.infoPanel
  /\ floorPlaneConstant' = s.floorPlaneConstant
  /\ floorSelectValue' = s.floorSelectValue

\* ------------------------------------------------------------ remote calls
NoCfg == [floor_height |-> 0, num_floors |-> 0]
NoData == [key |-> DbKey(0), db_id |-> 0, name |-> "", serial |-> [tag |-> "", n |-> 0],
           location |-> 0]
NoPos == [x |-> 0, y |-> 0, z |-> 0]

\* A handler suspended at `await`: the call it waits for and what it captured
\* (count: result.installed_count of the bulk import; floor: floorNumber of
\* spawnDeviceAndSave).
Task(kind, mesh, data, pos) ==
  [tid |-> calls + 1, kind |-> kind, phase |-> "sent", ok |-> FALSE, success |-> FALSE,
   rows |-> << >>, cfg |-> NoCfg, mesh |-> mesh, data |-> data, pos |-> pos, count |-> 0,
   floor |-> 0]

CanCall(n) == calls + n <= MaxCalls

\* ------------------------------------------------------------ initial state
\* InitTwin(n): the Persistence Service holds n devices when the page opens.
InitTwin(n) ==
  /\ store = { Row(id, "Galaxy_VL", [x |-> 0, y |-> (id - 1) * 10, z |-> 0]) : id \in 1..n }
  /\ nextId = n + 1
  /\ localStorageId \in {NULL, 1}
  /\ CURRENT_WAREHOUSE_ID = NULL
  /\ glbLoaded = FALSE
  /\ meshes = << >>
  /\ DEVICE_DB = << >>
  /\ interactableMeshes = << >>
  /\ pendingDatabaseDevices = << >>
  /\ state3D = [selectedMesh |-> NULL, blinkTween |-> NULL]
  /\ infoPanel = "hidden"
  /\ currentView = "3d"
  /\ floorPlaneConstant = NoClip
  /\ floorSelectValue = FloorValue(1)
  /\ floorOptions = HtmlFloors
  /\ FLOOR_HEIGHT = DefaultFloorHeight
  /\ isDragging = FALSE
  /\ draggedMesh = NULL
  /\ tasks = {}
  /\ calls = 0
  /\ lastAlert = "none"
  /\ thrown = "none"

\* Nothing is rendered yet for the device whose score and warranty are drawn
\* from the given sets.
NothingRendered ==
  [status |-> {}, emissive |-> {}, badge |-> {}, counts |-> {}, node |-> {}, overview |-> {},
   warrantyPanel |-> {}, warrantyDetails |-> {}, ring |-> {}, indicator |-> {}, frame |-> {}]

\* ------------------------------------------------------------ setup wizard (setup.js)
\* A text is a sequence of characters; a blank and a letter are told apart.
Texts == UNION { [1..k -> {" ", "a"}] : k \in 0..MaxText }

RECURSIVE trimStart(_)
trimStart(s) == IF s # << >> /\ Head(s) = " " THEN trimStart(Tail(s)) ELSE s

RECURSIVE trimEnd(_)
trimEnd(s) == IF s # << >> /\ s[Len(s)] = " " THEN trimEnd(SubSeq(s, 1, Len(s) - 1)) ELSE s

\* String.prototype.trim
trim(s) == trimEnd(trimStart(s))

\* uploadMethod: null
NoMethod == "null"
UploadMethods == {"excel", "manual"}

\* let currentStep = 1; let warehouseConfig = {...}; the form fields are empty,
\* step 1 is displayed and no summary has been written
InitialSetup ==
  [currentStep |-> 1,
   warehouseConfig |-> [name |-> << >>, customerName |-> << >>, location |-> << >>,
                        uploadMethod |-> NoMethod],
   form |-> [warehouseName |-> << >>, customerName |-> << >>, location |-> << >>],
   activeStep |-> 1,
   summary |-> [name |-> << >>, method |-> "none"],
   alert |-> "none"]

\* Seeded fault: validateStep1 that accepts any name.
validateStep1Unchecked(w) ==
  [ok |-> TRUE,
   w |-> [w EXCEPT !.warehouseConfig.name = trim(w.form.warehouseName),
                   !.warehouseConfig.customerName = trim(w.form.customerName),
                   !.warehouseConfig.location = trim(w.form.location)]]

\* validateStep1 returns whether the name is accepted, and the new state
validateStep1(w) ==
  LET name == trim(w.form.warehouseName)
  IN IF name = << >>
     THEN [ok |-> FALSE, w |-> [w EXCEPT !.alert = "enter_warehouse_name"]]
     ELSE [ok |-> TRUE,
           w |-> [w EXCEPT !.warehouseConfig.name = name,
                           !.warehouseConfig.customerName = trim(w.form.customerName),
                           !.warehouseConfig.location = trim(w.form.location)]]

validateStep2(w) ==
  IF w.warehouseConfig.uploadMethod = NoMethod
  THEN [ok |-> FALSE, w |-> [w EXCEPT !.alert = "select_method"]]
  ELSE [ok |-> TRUE, w |-> w]

updateStepDisplay(w) == [w EXCEPT !.activeStep = w.currentStep]

updateSummary(w) ==
  [w EXCEPT !.summary =
     [name |-> w.warehouseConfig.name,
      method |-> IF w.warehouseConfig.uploadMethod = "excel"
                 THEN "Excel Upload" ELSE "Manual Placement"]]

nextStep(w) ==
  LET v1 == IF w.currentStep = 1 THEN validateStep1(w) ELSE [ok |-> TRUE, w |-> w]
      v2 == IF v1.w.currentStep = 2 THEN validateStep2(v1.w) ELSE [ok |-> TRUE, w |-> v1.w]
      stepped == IF v2.w.currentStep < 3
                 THEN updateStepDisplay([v2.w EXCEPT !.currentStep = @ + 1])
                 ELSE v2.w
  IN IF ~v1.ok THEN v1.w
     ELSE IF ~v2.ok THEN v2.w
     ELSE IF stepped.currentStep = 3 THEN updateSummary(stepped)
     ELSE stepped

prevStep(w) ==
  IF w.currentStep > 1 THEN updateStepDisplay([w EXCEPT !.currentStep = @ - 1]) ELSE w

selectUploadMethod(w, method) == [w EXCEPT !.warehouseConfig.uploadMethod = method]

\* const nodeView = {...}; hoveredNode db_0 stands for null
InitialNodeView ==
  [offsetX |-> 0, offsetY |-> 0, scale |-> ScaleUnit, isDragging |-> FALSE,
   dragStartX |-> 0, dragStartY |-> 0, hoveredNode |-> DbKey(0),
   minScale |-> (3 * ScaleUnit) \div 10, maxScale |-> 3 * ScaleUnit]

\* Before the asset is loaded the only material object is the one the asset's
\* device nodes refer to; a material's state is "plain" or "emissive".
NoMaterials == [heap |-> << "plain" >>, mesh |-> << >>, selectedMesh |-> NULL]

ViewsWith(scores, days) ==
  /\ health \in scores
  /\ daysRemaining \in days
  /\ rendered = NothingRendered
  /\ nodeView = InitialNodeView
  /\ materialGraph = NoMaterials
  /\ setup = InitialSetup

InitWith(n) == InitTwin(n) /\ ViewsWith({MaxScore}, {MaxDays})

Init == InitWith(1)

\* ------------------------------------------------------------ asset load
\* model.traverse(...) of the GLTFLoader callback over the nodes from index i:
\* registers every device node as a template device.
RECURSIVE RegisterTemplates(_, _)
RegisterTemplates(tw, i) ==
  IF i > Len(GlbNodes) THEN tw
  ELSE LET node == GlbNodes[i]
           type == node.name.tag
           \* typeCounters[type]: position of the node among those of its type
           count == Cardinality({ j \in 1..i : GlbNodes[j].name.tag = type })
           serialNo == [tag |-> type, n |-> count]
           entry == [key |-> node.name, db_id |-> 0, name |-> type, serial |-> serialNo,
                     location |-> FloorDiv(node.position.y, FLOOR_HEIGHT) + 1]
           child == NewMesh(node.name, "plain", node.position)
           db1 == IF \E k \in 1..Len(tw.DEVICE_DB) : tw.DEVICE_DB[k].serial = serialNo
                  THEN tw.DEVICE_DB ELSE DbPut(tw.DEVICE_DB, entry)
       IN RegisterTemplates(
            [tw EXCEPT !.meshes = Append(@, child),
                       !.DEVICE_DB = db1,
                       !.interactableMeshes = Append(@, Len(tw.meshes) + 1)],
            i + 1)

\* loader.load callback: register the templates, start loadWarehouseFromDatabase
\* (which runs up to its first await) and drain the pending queue.
GLTFLoaded ==
  /\ ~glbLoaded
  /\ glbLoaded' = TRUE
  /\ LET reg == RegisterTemplates(
                  Twin(meshes, DEVICE_DB, interactableMeshes, pendingDatabaseDevices), 1)
         drained == SpawnEach([reg EXCEPT !.pending = << >>], reg.pending, 1)
     IN /\ meshes' = drained.meshes
        /\ DEVICE_DB' = drained.DEVICE_DB
        /\ interactableMeshes' = drained.interactableMeshes
        /\ pendingDatabaseDevices' = << >>
  /\ CURRENT_WAREHOUSE_ID' = localStorageId
  /\ IF localStorageId = NULL
     THEN UNCHANGED << tasks, calls >>
     ELSE /\ tasks' = tasks \cup { Task("fetchWarehouse", NULL, NoData, NoPos) }
          /\ calls' = calls + 1
  /\ thrown' = "none"
  /\ UNCHANGED << serverVars, localStorageId, selVars, currentView, floorVars, dragVars, lastAlert >>
  /\ UNCHANGED viewVars

\* ------------------------------------------------------------ Persistence Service
\* The service handles the request of task t and answers as given.
Answer(t, ok, success, rows, cfg) ==
  tasks' = (tasks \ {t}) \cup
           { [t EXCEPT !.phase = "answered", !.ok = ok, !.success = success,
                       !.rows = rows, !.cfg = cfg] }

Sent(t, kinds) == t \in tasks /\ t.phase = "sent" /\ t.kind \in kinds

\* What no answer of the service touches.
ServerFrame ==
  /\ thrown' = "none"
  /\ UNCHANGED << envVars, twinVars, selVars, currentView, floorVars, dragVars, calls, lastAlert >>
  /\ UNCHANGED viewVars

\* The service is unreachable or answers non-2xx (for the bulk import: with a
\* body that is not JSON).
ServerFail(t) ==
  /\ t \in tasks /\ t.phase = "sent"
  /\ Answer(t, FALSE, FALSE, << >>, NoCfg)
  /\ UNCHANGED serverVars
  /\ ServerFrame

\* GET /warehouses/{id}
AnswerFetchWarehouse(t, cfg) ==
  /\ Sent(t, {"fetchWarehouse"})
  /\ Answer(t, TRUE, FALSE, << >>, cfg)
  /\ UNCHANGED serverVars
  /\ ServerFrame

\* GET /devices/warehouse/{id}
AnswerFetchDevices(t) ==
  /\ Sent(t, {"fetchDevices", "reloadDevices"})
  /\ Answer(t, TRUE, FALSE, StoreRows(store), NoCfg)
  /\ UNCHANGED serverVars
  /\ ServerFrame

\* DELETE /devices/{id}: 2xx when the row exists, non-2xx otherwise
AnswerDelete(t) ==
  /\ Sent(t, {"delete"})
  /\ LET known == \E r \in store : r.id = t.data.db_id
     IN /\ Answer(t, known, FALSE, << >>, NoCfg)
        /\ store' = { r \in store : r.id # t.data.db_id }
  /\ UNCHANGED nextId
  /\ ServerFrame

\* PUT /devices/{id} with a position: 2xx when the row exists, non-2xx otherwise
AnswerPut(t) ==
  /\ Sent(t, {"savePos", "keySave"})
  /\ LET known == \E r \in store : r.id = t.data.db_id
     IN /\ Answer(t, known, FALSE, << >>, NoCfg)
        /\ store' = { IF r.id = t.data.db_id THEN [r EXCEPT !.position = t.pos] ELSE r : r \in store }
  /\ UNCHANGED nextId
  /\ ServerFrame

\* POST /devices/upload-excel/{id}: n rows of the given type are installed and
\* the JSON answer carries installed_count = n and the flag `success` (false:
\* some rows of the file were rejected and are listed in `errors`)
AnswerUpload(t, type, n, success) ==
  /\ Sent(t, {"upload"})
  /\ nextId + n <= MaxDevices + 1
  /\ tasks' = (tasks \ {t}) \cup
              { [t EXCEPT !.phase = "answered", !.ok = TRUE, !.success = success, !.count = n] }
  /\ store' = store \cup { Row(id, type, CHOOSE p \in Positions : p.y # 0) : id \in nextId..(nextId + n - 1) }
  /\ nextId' = nextId + n
  /\ ServerFrame

\* GET /products/
AnswerProducts(t) ==
  /\ Sent(t, {"products"})
  /\ Answer(t, TRUE, FALSE, << >>, NoCfg)
  /\ UNCHANGED serverVars
  /\ ServerFrame

\* POST /devices/
AnswerCreate(t) ==
  /\ Sent(t, {"create"})
  /\ nextId <= MaxDevices
  /\ Answer(t, TRUE, FALSE,
            << [Row(nextId, t.data.name, t.pos) EXCEPT !.floor_number = t.floor] >>, NoCfg)
  /\ store' = store \cup { [Row(nextId, t.data.name, t.pos) EXCEPT !.floor_number = t.floor] }
  /\ nextId' = nextId + 1
  /\ ServerFrame

\* ------------------------------------------------------------ facility load
\* loadWarehouseFromDatabase resumed after `await fetchWarehouse`
FetchWarehouseDone(t) ==
  /\ t \in tasks /\ t.kind = "fetchWarehouse" /\ t.phase = "answered"
  /\ IF ~t.ok
     THEN /\ tasks' = tasks \ {t}
          /\ UNCHANGED << calls, floorVars >>
     ELSE /\ FLOOR_HEIGHT' = IF t.cfg.floor_height # 0 THEN t.cfg.floor_height ELSE DefaultFloorHeight
          \* updateFloorSelector: options rebuilt, option 1 selected
          /\ floorOptions' = t.cfg.num_floors
          /\ floorSelectValue' = FloorValue(1)
          /\ UNCHANGED floorPlaneConstant
          /\ tasks' = (tasks \ {t}) \cup { Task("fetchDevices", NULL, NoData, NoPos) }
          /\ calls' = calls + 1
  /\ thrown' = "none"
  /\ UNCHANGED << serverVars, envVars, twinVars, selVars, currentView, dragVars, lastAlert >>
  /\ UNCHANGED viewVars

\* loadWarehouseFromDatabase resumed after `await fetchDevices`
FetchDevicesDone(t) ==
  /\ t \in tasks /\ t.kind = "fetchDevices" /\ t.phase = "answered"
  /\ LET tw == Twin(meshes, DEVICE_DB, interactableMeshes, pendingDatabaseDevices)
         after == SpawnEach(tw, t.rows, 1)
     IN /\ Len(after.meshes) <= MaxMeshes
        /\ meshes' = after.meshes
        /\ DEVICE_DB' = after.DEVICE_DB
        /\ interactableMeshes' = after.interactableMeshes
        /\ pendingDatabaseDevices' = after.pending
  /\ tasks' = tasks \ {t}
  /\ thrown' = "none"
  /\ UNCHANGED << serverVars, envVars, selVars, currentView, floorVars, dragVars, calls, lastAlert >>
  /\ UNCHANGED viewVars

\* ------------------------------------------------------------ 2D node view
\* renderNodeView / getNodeAtPosition: parseInt(floorSelect.value) || 1
currentFloor ==
  IF floorSelectValue.kind = "num" THEN floorSelectValue.n ELSE 1

\* renderNodeView: the registry entries (by index) that pass the floor filter
currentFloorDevices ==
  { k \in 1..Len(DEVICE_DB) :
      LET dbDevice == FindByKey(meshes, interactableMeshes, DEVICE_DB[k].key)
      IN /\ dbDevice # NULL
         /\ FloorIndexOf(meshes[dbDevice].position.y, FLOOR_HEIGHT) = currentFloor }

\* nodeCanvas.clientWidth / 2 and clientHeight / 2 of a canvas of 200 x 100
\* pixels whose bounding rectangle starts at (0, 0)
CanvasCentre == [x |-> 100, y |-> 50]

\* Where the cursor is put: on the canvas centre, 17 and 40 pixels right of it.
CursorPoints == { [x |-> CanvasCentre.x + d, y |-> CanvasCentre.y] : d \in {0, 17, 40} }

initNodeCanvas(v) == [v EXCEPT !.offsetX = CanvasCentre.x, !.offsetY = CanvasCentre.y]

\* distance < 20 between the cursor in world coordinates,
\* (mouse - offset) / scale, and the device at (x2d, z2d); both sides of the
\* comparison are multiplied by the scale (in thousandths) and squared
\* (a component of the radius or more already puts the point outside; testing
\* the components first keeps the products small)
WithinRadius(v, p, x2d, z2d) ==
  LET dx == (p.x - v.offsetX) * ScaleUnit - x2d * v.scale
      dy == (p.y - v.offsetY) * ScaleUnit - z2d * v.scale
      r == HitRadius * v.scale
  IN /\ dx < r /\ 0 - dx < r
     /\ dy < r /\ 0 - dy < r
     /\ dx * dx + dy * dy < r * r

\* The key of the first registry entry whose mesh is on the current floor and
\* within the radius of the cursor; db_0 for null.
getNodeAtPosition(v, p) ==
  LET hit == [k \in 1..Len(DEVICE_DB) |->
                LET mesh == FindByKey(meshes, interactableMeshes, DEVICE_DB[k].key)
                IN /\ mesh # NULL
                   /\ FloorIndexOf(meshes[mesh].position.y, FLOOR_HEIGHT) = currentFloor
                   /\ WithinRadius(v, p, meshes[mesh].position.x * scale2d,
                                   (0 - meshes[mesh].position.z) * scale2d)]
      i == FirstTrue(hit)
  IN IF i = 0 THEN DbKey(0) ELSE DEVICE_DB[i].key

\* a top-down projection that keeps the sign of z
toTopDownZNotFlipped(pos) == [x2d |-> pos.x * scale2d, z2d |-> pos.z * scale2d]

\* renderNodeView: x2d = mesh.position.x * scale2d, z2d = -mesh.position.z * scale2d
toTopDown(pos) == [x2d |-> pos.x * scale2d, z2d |-> (0 - pos.z) * scale2d]

\* renderNodeView: after translate(offset) and scale(scale) the node of registry
\* entry k is drawn with its centre at offset + scale * (x2d, z2d); the centre
\* is given in thousandths of a pixel
drawnCentre(v, k) ==
  LET mesh == FindByKey(meshes, interactableMeshes, DEVICE_DB[k].key)
      at == toTopDown(meshes[mesh].position)
  IN [x |-> v.offsetX * ScaleUnit + at.x2d * v.scale,
      y |-> v.offsetY * ScaleUnit + at.z2d * v.scale]

\* a wheel handler that takes every step
wheelUnbounded(v, deltaYPositive) ==
  [v EXCEPT !.scale = IF deltaYPositive THEN (v.scale * 9) \div 10 ELSE (v.scale * 11) \div 10]

\* wheel handler: delta 0.9 or 1.1, taken if the result is within
\* [minScale, maxScale]
wheel(v, deltaYPositive) ==
  LET newScale == IF deltaYPositive THEN (v.scale * 9) \div 10 ELSE (v.scale * 11) \div 10
  IN IF newScale >= v.minScale /\ newScale <= v.maxScale
     THEN [v EXCEPT !.scale = newScale]
     ELSE v

NodeMouseDown(p) ==
  /\ currentView = "network"
  /\ nodeView' = [nodeView EXCEPT !.isDragging = TRUE,
                                  !.dragStartX = p.x - nodeView.offsetX,
                                  !.dragStartY = p.y - nodeView.offsetY]
  /\ UNCHANGED << setup, health, daysRemaining, rendered, materialGraph, programVars >>

\* mousemove: pan while dragging, otherwise checkNodeHover
NodeMouseMove(p) ==
  /\ currentView = "network"
  /\ IF nodeView.isDragging
     THEN /\ p.x - nodeView.dragStartX \in (CanvasCentre.x - MaxPan)..(CanvasCentre.x + MaxPan)
          /\ nodeView' = [nodeView EXCEPT !.offsetX = p.x - nodeView.dragStartX,
                                          !.offsetY = p.y - nodeView.dragStartY]
     ELSE nodeView' = [nodeView EXCEPT !.hoveredNode = getNodeAtPosition(nodeView, p)]
  /\ UNCHANGED << setup, health, daysRemaining, rendered, materialGraph, programVars >>

\* mouseup and mouseleave
NodeMouseUp ==
  /\ nodeView' = [nodeView EXCEPT !.isDragging = FALSE]
  /\ UNCHANGED << setup, health, daysRemaining, rendered, materialGraph, programVars >>

NodeWheel(deltaYPositive) ==
  /\ currentView = "network"
  /\ nodeView' = wheel(nodeView, deltaYPositive)
  /\ UNCHANGED << setup, health, daysRemaining, rendered, materialGraph, programVars >>

\* click on the canvas: showInfoPanel(clickedNode) if a node is hit
NodeClick(p) ==
  /\ currentView = "network"
  /\ LET clickedNode == getNodeAtPosition(nodeView, p)
     IN infoPanel' = IF clickedNode # DbKey(0) THEN clickedNode ELSE infoPanel
  /\ thrown' = "none"
  /\ UNCHANGED << serverVars, envVars, twinVars, state3D, currentView, floorVars, dragVars,
                  tasks, calls, lastAlert >>
  /\ UNCHANGED viewVars

\* window resize
WindowResize ==
  /\ currentView = "network"
  /\ nodeView' = initNodeCanvas(nodeView)
  /\ UNCHANGED << setup, health, daysRemaining, rendered, materialGraph, programVars >>

\* ------------------------------------------------------------ selection handlers
\* window click: the ray hits interactable mesh m
WindowClick(m) ==
  /\ currentView = "3d"
  /\ m \in Range(interactableMeshes)
  /\ LET r == select3DMesh(CurSel, DEVICE_DB, m, FLOOR_HEIGHT)
     IN SetSel(r.s) /\ thrown' = r.thrown
  /\ UNCHANGED << serverVars, envVars, DEVICE_DB, interactableMeshes, pendingDatabaseDevices,
                  currentView, floorOptions, FLOOR_HEIGHT, dragVars, tasks, calls, lastAlert >>
  /\ UNCHANGED viewVars

\* searchBtn click; the query is a device name or a serial number
SearchBtn(byName, name, serial) ==
  /\ LET i == FirstTrue([k \in 1..Len(DEVICE_DB) |->
                          IF byName THEN DEVICE_DB[k].name = name ELSE DEVICE_DB[k].serial = serial])
     IN IF i = 0
        THEN /\ lastAlert' = "no_device_found"
             /\ thrown' = "none"
             /\ UNCHANGED << meshes, selVars, floorPlaneConstant, floorSelectValue >>
        ELSE /\ UNCHANGED lastAlert
             /\ IF currentView = "3d"
                THEN LET r == select3DByKey(CurSel, DEVICE_DB, interactableMeshes,
                                            DEVICE_DB[i].key, FLOOR_HEIGHT)
                     IN SetSel(r.s) /\ thrown' = r.thrown
                ELSE /\ thrown' = "none"
                     /\ UNCHANGED << meshes, selVars, floorPlaneConstant, floorSelectValue >>
  /\ UNCHANGED << serverVars, envVars, DEVICE_DB, interactableMeshes, pendingDatabaseDevices,
                  currentView, floorOptions, FLOOR_HEIGHT, dragVars, tasks, calls >>
  /\ UNCHANGED viewVars

\* closePanel click
ClosePanel ==
  /\ SetSel([deselectAll3D(CurSel, TRUE) EXCEPT !.infoPanel = "hidden"])
  /\ thrown' = "none"
  /\ UNCHANGED << serverVars, envVars, DEVICE_DB, interactableMeshes, pendingDatabaseDevices,
                  currentView, floorOptions, FLOOR_HEIGHT, dragVars, tasks, calls, lastAlert >>
  /\ UNCHANGED viewVars

\* viewToggleBtn click: both listeners of the button (currentView and
\* current2DView change together; 'network' is the node view)
ViewToggle ==
  /\ currentView' = IF currentView = "3d" THEN "network" ELSE "3d"
  /\ infoPanel' = "hidden"
  /\ nodeView' = IF currentView = "3d" THEN initNodeCanvas(nodeView) ELSE nodeView
  /\ thrown' = "none"
  /\ UNCHANGED << serverVars, envVars, twinVars, state3D, floorVars, dragVars, tasks, calls, lastAlert >>
  /\ UNCHANGED << setup, health, daysRemaining, rendered, materialGraph >>

\* floorSelect change to option v ('all' when v = 0)
FloorSelectChange(v) ==
  /\ v \in 0..floorOptions
  /\ floorSelectValue' = IF v = 0 THEN AllFloors ELSE FloorValue(v)
  /\ floorPlaneConstant' = IF v = 0 THEN NoClip ELSE v * FLOOR_HEIGHT
  /\ thrown' = "none"
  /\ UNCHANGED << serverVars, envVars, twinVars, selVars, currentView, floorOptions, FLOOR_HEIGHT,
                  dragVars, tasks, calls, lastAlert >>
  /\ UNCHANGED viewVars

\* floorSelect change handler of the earlier copy of the program (main.js
\* 497-514): returns for 'all', otherwise turns clipping off
FloorSelectChangeEarlier(v) ==
  /\ v \in 0..floorOptions
  /\ floorSelectValue' = IF v = 0 THEN AllFloors ELSE FloorValue(v)
  /\ floorPlaneConstant' = IF v = 0 THEN floorPlaneConstant ELSE NoClip
  /\ thrown' = "none"
  /\ UNCHANGED << serverVars, envVars, twinVars, selVars, currentView, floorOptions, FLOOR_HEIGHT,
                  dragVars, tasks, calls, lastAlert >>
  /\ UNCHANGED viewVars

\* ------------------------------------------------------------ gateway results
\* What saveDevicePosition resolves to: nothing, whether the PUT succeeded or not.
saveDevicePosition(ok) == "undefined"

\* What deleteDevice resolves to: true for a 2xx answer, false otherwise.
deleteDevice(ok) == ok

\* ------------------------------------------------------------ delete
\* The part of the deleteDeviceBtn handler after the remote call (lines 1439-1485):
\* hide the panel, clear the selection, drop the mesh from interactableMeshes
\* and the key from DEVICE_DB, start the fade-out tween, announce success.
DeleteRemoval(meshToDelete) ==
  LET meshIndex == FirstTrue([k \in 1..Len(interactableMeshes) |-> interactableMeshes[k] = meshToDelete])
  IN /\ infoPanel' = "hidden"
     /\ state3D' = [state3D EXCEPT !.selectedMesh = NULL]
     /\ interactableMeshes' = IF meshIndex > 0 THEN RemoveAt(interactableMeshes, meshIndex)
                              ELSE interactableMeshes
     /\ DEVICE_DB' = DbDelete(DEVICE_DB, meshes[meshToDelete].dbKey)
     /\ meshes' = [meshes EXCEPT ![meshToDelete].fade = @ + 1]
     /\ lastAlert' = "removed_successfully"

\* deleteDeviceBtn click, confirmed by the user
DeleteClick ==
  /\ state3D.selectedMesh # NULL
  /\ LET mesh == state3D.selectedMesh
         key == meshes[mesh].dbKey
     IN IF ~DbHas(DEVICE_DB, key)
        THEN /\ lastAlert' = "cannot_delete_no_info"
             /\ UNCHANGED << twinVars, selVars, tasks, calls >>
        ELSE IF DbGet(DEVICE_DB, key).db_id # 0
        THEN /\ CanCall(1)
             /\ tasks' = tasks \cup { Task("delete", mesh, DbGet(DEVICE_DB, key), NoPos) }
             /\ calls' = calls + 1
             /\ UNCHANGED << twinVars, selVars, lastAlert >>
        ELSE /\ DeleteRemoval(mesh)
             /\ UNCHANGED << pendingDatabaseDevices, tasks, calls >>
  /\ thrown' = "none"
  /\ UNCHANGED << serverVars, envVars, currentView, floorVars, dragVars >>
  /\ UNCHANGED viewVars

\* deleteDeviceBtn handler resumed after `await deleteDevice`
DeleteDone(t) ==
  /\ t \in tasks /\ t.kind = "delete" /\ t.phase = "answered"
  /\ tasks' = tasks \ {t}
  /\ IF ~deleteDevice(t.ok)
     THEN /\ lastAlert' = "delete_failed"
          /\ UNCHANGED << twinVars, selVars >>
     ELSE /\ DeleteRemoval(t.mesh)
          /\ UNCHANGED pendingDatabaseDevices
  /\ thrown' = "none"
  /\ UNCHANGED << serverVars, envVars, currentView, floorVars, dragVars, calls >>
  /\ UNCHANGED viewVars

\* completeMeshDeletion: dispose geometry and material, detach from the scene
completeMeshDeletion(ms, mesh) ==
  [ms EXCEPT ![mesh].disposed = @ + 1, ![mesh].inScene = FALSE]

\* the fade-out tween of mesh m reaches its end (onComplete)
FadeComplete(m) ==
  /\ m \in 1..Len(meshes)
  /\ meshes[m].fade > 0
  /\ meshes' = completeMeshDeletion([meshes EXCEPT ![m].fade = @ - 1], m)
  /\ thrown' = "none"
  /\ UNCHANGED << serverVars, envVars, DEVICE_DB, interactableMeshes, pendingDatabaseDevices,
                  selVars, currentView, floorVars, dragVars, tasks, calls, lastAlert >>
  /\ UNCHANGED viewVars

\* ------------------------------------------------------------ position
\* updatePositionBtn click; `valid` is false when an input does not parse
UpdatePositionClick(valid, pos) ==
  /\ state3D.selectedMesh # NULL
  /\ LET mesh == state3D.selectedMesh
         key == meshes[mesh].dbKey
         hasDbId == DbHas(DEVICE_DB, key) /\ DbGet(DEVICE_DB, key).db_id # 0
     IN IF ~valid
        THEN /\ lastAlert' = "enter_valid_numbers"
             /\ UNCHANGED << meshes, tasks, calls >>
        ELSE /\ meshes' = [meshes EXCEPT ![mesh].position = pos]
             /\ IF hasDbId
                THEN /\ CanCall(1)
                     /\ tasks' = tasks \cup { Task("savePos", mesh, DbGet(DEVICE_DB, key), pos) }
                     /\ calls' = calls + 1
                     /\ UNCHANGED lastAlert
                ELSE /\ lastAlert' = "position_updated_template"
                     /\ UNCHANGED << tasks, calls >>
  /\ thrown' = "none"
  /\ UNCHANGED << serverVars, envVars, DEVICE_DB, interactableMeshes, pendingDatabaseDevices,
                  selVars, currentView, floorVars, dragVars >>
  /\ UNCHANGED viewVars

\* updatePositionBtn handler resumed after `await saveDevicePosition`
SavePositionDone(t) ==
  /\ t \in tasks /\ t.kind = "savePos" /\ t.phase = "answered"
  /\ tasks' = tasks \ {t}
  /\ lastAlert' = IF saveDevicePosition(t.ok) = "undefined"
                  THEN "position_saved_to_database" ELSE "position_save_failed"
  /\ thrown' = "none"
  /\ UNCHANGED << serverVars, envVars, twinVars, selVars, currentView, floorVars, dragVars, calls >>
  /\ UNCHANGED viewVars

\* keydown 'd': enter keyboard reposition mode for the selected mesh
KeyD ==
  /\ state3D.selectedMesh # NULL
  /\ isDragging' = TRUE
  /\ draggedMesh' = state3D.selectedMesh
  /\ thrown' = "none"
  /\ UNCHANGED << serverVars, envVars, twinVars, selVars, currentView, floorVars, tasks, calls, lastAlert >>
  /\ UNCHANGED viewVars

\* keydown of an arrow key in reposition mode: dx, dz in {-speed, 0, speed}
KeyArrow(dx, dz) ==
  /\ isDragging /\ draggedMesh # NULL
  /\ (dx = 0) # (dz = 0)
  /\ LET p == meshes[draggedMesh].position
     IN /\ p.x + dx \in 0..MaxCoord
        /\ p.z + dz \in 0..MaxCoord
        /\ meshes' = [meshes EXCEPT ![draggedMesh].position = [p EXCEPT !.x = @ + dx, !.z = @ + dz]]
  /\ thrown' = "none"
  /\ UNCHANGED << serverVars, envVars, DEVICE_DB, interactableMeshes, pendingDatabaseDevices,
                  selVars, currentView, floorVars, dragVars, tasks, calls, lastAlert >>
  /\ UNCHANGED viewVars

\* keydown 's' in reposition mode: save without waiting and leave the mode
KeyS ==
  /\ isDragging /\ draggedMesh # NULL
  /\ LET key == meshes[draggedMesh].dbKey
         hasDbId == DbHas(DEVICE_DB, key) /\ DbGet(DEVICE_DB, key).db_id # 0
     IN IF hasDbId
        THEN /\ CanCall(1)
             /\ tasks' = tasks \cup { Task("keySave", draggedMesh, DbGet(DEVICE_DB, key),
                                           meshes[draggedMesh].position) }
             /\ calls' = calls + 1
             /\ lastAlert' = "position_saved_to_database"
        ELSE UNCHANGED << tasks, calls, lastAlert >>
  /\ isDragging' = FALSE
  /\ draggedMesh' = NULL
  /\ thrown' = "none"
  /\ UNCHANGED << serverVars, envVars, twinVars, selVars, currentView, floorVars >>
  /\ UNCHANGED viewVars

\* the PUT issued by the keyboard save settles; nothing waits for it
KeySaveSettled(t) ==
  /\ t \in tasks /\ t.kind = "keySave" /\ t.phase = "answered"
  /\ tasks' = tasks \ {t}
  /\ thrown' = "none"
  /\ UNCHANGED << serverVars, envVars, twinVars, selVars, currentView, floorVars, dragVars, calls, lastAlert >>
  /\ UNCHANGED viewVars

\* ------------------------------------------------------------ bulk import
\* excelUpload change with a file chosen: handleExcelUpload up to the POST
ExcelUploadStart ==
  /\ IF CURRENT_WAREHOUSE_ID = NULL
     THEN /\ lastAlert' = "complete_setup_first"
          /\ UNCHANGED << tasks, calls >>
     ELSE /\ CanCall(2)
          /\ tasks' = tasks \cup { Task("upload", NULL, NoData, NoPos) }
          /\ calls' = calls + 1
          /\ UNCHANGED lastAlert
  /\ thrown' = "none"
  /\ UNCHANGED << serverVars, envVars, twinVars, selVars, currentView, floorVars, dragVars >>
  /\ UNCHANGED viewVars

\* handleExcelUpload resumed after the POST and `response.json()`
ExcelUploadDone(t) ==
  /\ t \in tasks /\ t.kind = "upload" /\ t.phase = "answered"
  /\ IF ~t.ok
     THEN /\ lastAlert' = "upload_failed"
          /\ tasks' = tasks \ {t}
          /\ UNCHANGED calls
     ELSE IF t.success
     THEN /\ lastAlert' = "installed_devices"
          /\ tasks' = (tasks \ {t}) \cup
                      { [Task("reloadDevices", NULL, NoData, NoPos) EXCEPT !.count = t.count] }
          /\ calls' = calls + 1
     ELSE /\ lastAlert' = "upload_completed_with_errors"
          /\ tasks' = tasks \ {t}
          /\ UNCHANGED calls
  /\ thrown' = "none"
  /\ UNCHANGED << serverVars, envVars, twinVars, selVars, currentView, floorVars, dragVars >>
  /\ UNCHANGED viewVars

\* handleExcelUpload resumed after `await fetchDevices`: drop every db_ key and
\* every db_ mesh of interactableMeshes, respawn the fetched devices
ReloadDone(t) ==
  /\ t \in tasks /\ t.kind = "reloadDevices" /\ t.phase = "answered"
  /\ LET cleared == Twin(meshes,
                         SelectSeq(DEVICE_DB, LAMBDA e : e.key.tag # "db_"),
                         SelectSeq(interactableMeshes, LAMBDA m : meshes[m].name.tag # "db_"),
                         pendingDatabaseDevices)
         after == SpawnEach(cleared, t.rows, 1)
     IN /\ Len(after.meshes) <= MaxMeshes
        /\ meshes' = after.meshes
        /\ DEVICE_DB' = after.DEVICE_DB
        /\ interactableMeshes' = after.interactableMeshes
        /\ pendingDatabaseDevices' = after.pending
  /\ tasks' = tasks \ {t}
  /\ thrown' = "none"
  /\ UNCHANGED << serverVars, envVars, selVars, currentView, floorVars, dragVars, calls, lastAlert >>
  /\ UNCHANGED viewVars

\* animate: one render frame between two handlers; what it finds of the
\* persisted devices in the registry, in interactableMeshes and in the scene
Animate ==
  /\ rendered' = [rendered EXCEPT !.frame =
       { [registry |-> PersistedKeys(DEVICE_DB),
          pool |-> { meshes[m].dbKey : m \in { k \in Range(interactableMeshes) :
                                                 meshes[k].name.tag = "db_" } },
          scene |-> { m \in 1..Len(meshes) : meshes[m].inScene }] }]
  /\ UNCHANGED << setup, health, daysRemaining, programVars, nodeView, materialGraph >>

\* ------------------------------------------------------------ create by drop
\* drop of palette item `typeKey` on a non-device surface at `position`:
\* spawnDeviceAndSave up to the catalogue fetch
Drop(typeKey, position) ==
  /\ glbLoaded
  /\ IF FindTemplate(meshes, interactableMeshes, typeKey) = NULL
     THEN UNCHANGED << tasks, calls >>
     ELSE /\ CanCall(2)
          /\ tasks' = tasks \cup { Task("products", NULL, [NoData EXCEPT !.name = typeKey], position) }
          /\ calls' = calls + 1
  /\ thrown' = "none"
  /\ UNCHANGED << serverVars, envVars, twinVars, selVars, currentView, floorVars, dragVars, lastAlert >>
  /\ UNCHANGED viewVars

\* spawnDeviceAndSave resumed after the catalogue fetch, which nothing catches
ProductsDone(t) ==
  /\ t \in tasks /\ t.kind = "products" /\ t.phase = "answered"
  /\ IF ~t.ok
     THEN /\ thrown' = "unhandled_rejection"
          /\ tasks' = tasks \ {t}
          /\ UNCHANGED calls
     ELSE /\ thrown' = "none"
          /\ tasks' = (tasks \ {t}) \cup
                      { [Task("create", NULL, t.data, t.pos)
                           EXCEPT !.floor = FloorNumberOf(t.pos.y, FLOOR_HEIGHT)] }
          /\ calls' = calls + 1
  /\ UNCHANGED << serverVars, envVars, twinVars, selVars, currentView, floorVars, dragVars, lastAlert >>
  /\ UNCHANGED viewVars

\* spawnDeviceAndSave resumed after `await createDevice`
CreateDone(t) ==
  /\ t \in tasks /\ t.kind = "create" /\ t.phase = "answered"
  /\ LET tw == Twin(meshes, DEVICE_DB, interactableMeshes, pendingDatabaseDevices)
         after == IF t.ok THEN SpawnEach(tw, t.rows, 1) ELSE tw
     IN /\ Len(after.meshes) <= MaxMeshes
        /\ meshes' = after.meshes
        /\ DEVICE_DB' = after.DEVICE_DB
        /\ interactableMeshes' = after.interactableMeshes
        /\ pendingDatabaseDevices' = after.pending
  /\ tasks' = tasks \ {t}
  /\ thrown' = "none"
  /\ UNCHANGED << serverVars, envVars, selVars, currentView, floorVars, dragVars, calls, lastAlert >>
  /\ UNCHANGED viewVars

\* ------------------------------------------------------------ health and warranty tiers
\* A colour is written as its six hex digits: the CSS string '#22c55e' and the
\* number 0x22c55e are both "22c55e".

\* one that puts the Healthy boundary one point higher
getHealthInfoAbove80(score) ==
  IF score > 80
  THEN [label |-> "Healthy", hex |-> "22c55e", three |-> "22c55e", cls |-> "badge-healthy"]
  ELSE IF score >= 50
  THEN [label |-> "Warning", hex |-> "f59e0b", three |-> "f59e0b", cls |-> "badge-warning"]
  ELSE [label |-> "Critical", hex |-> "ef4444", three |-> "ef4444", cls |-> "badge-critical"]

getHealthInfo(score) ==
  IF score >= 80
  THEN [label |-> "Healthy", hex |-> "22c55e", three |-> "22c55e", cls |-> "badge-healthy"]
  ELSE IF score >= 50
  THEN [label |-> "Warning", hex |-> "f59e0b", three |-> "f59e0b", cls |-> "badge-warning"]
  ELSE [label |-> "Critical", hex |-> "ef4444", three |-> "ef4444", cls |-> "badge-critical"]

\* a || b on numbers: b when a is 0
OrElse(a, b) == IF a = 0 THEN b ELSE a

\* drawNode(x, y, device): the fill colour of the node
drawNode(deviceHealth) ==
  LET h == OrElse(deviceHealth, 75)
  IN IF h >= 80 THEN "22c55e"
     ELSE IF h >= 50 THEN "f59e0b"
     ELSE "ef4444"

\* buildDatasheet's counts for a list that holds the one device
datasheetCounts(h) ==
  [healthy  |-> IF h >= 80 THEN 1 ELSE 0,
   warning  |-> IF h >= 50 /\ h < 80 THEN 1 ELSE 0,
   critical |-> IF h < 50 THEN 1 ELSE 0]

\* renderNodeView's overview counts for a floor that holds the one device
overviewCounts(h) ==
  [healthy  |-> IF OrElse(h, 0) >= 80 THEN 1 ELSE 0,
   warning  |-> IF OrElse(h, 0) >= 50 /\ OrElse(h, 0) < 80 THEN 1 ELSE 0,
   critical |-> IF OrElse(h, 0) < 50 THEN 1 ELSE 0]

\* one that counts day 30 as critical
getWarrantyStatusThrough30(d) ==
  IF d < 0 THEN [color |-> "ef4444", status |-> "expired"]
  ELSE IF d <= 30 THEN [color |-> "f59e0b", status |-> "critical"]
  ELSE IF d < 90 THEN [color |-> "eab308", status |-> "warning"]
  ELSE [color |-> "22c55e", status |-> "healthy"]

\* getWarrantyStatus of main.js
getWarrantyStatus(d) ==
  IF d < 0 THEN [color |-> "ef4444", status |-> "expired"]
  ELSE IF d < 30 THEN [color |-> "f59e0b", status |-> "critical"]
  ELSE IF d < 90 THEN [color |-> "eab308", status |-> "warning"]
  ELSE [color |-> "22c55e", status |-> "healthy"]

\* getWarrantyStatus of warranty-system.js (its percentage field, the width of
\* a progress bar, is left out)
warrantySystemGetWarrantyStatus(d) ==
  IF d < 0 THEN [color |-> "ef4444", status |-> "expired"]
  ELSE IF d < 30 THEN [color |-> "f59e0b", status |-> "critical"]
  ELSE IF d < 90 THEN [color |-> "eab308", status |-> "warning"]
  ELSE [color |-> "22c55e", status |-> "healthy"]

\* addWarrantyIndicator(mesh, warrantyExpiry): ringColor ("none": null, no ring)
addWarrantyIndicator(d) ==
  IF d < 0 THEN "ef4444"
  ELSE IF d < 30 THEN "f59e0b"
  ELSE IF d < 90 THEN "eab308"
  ELSE "none"

\* one whose ring pulses whenever there is a ring
warrantyIndicatorPulsesAlways(hasExpiry, d) ==
  IF ~hasExpiry \/ addWarrantyIndicator(d) = "none"
  THEN [ring |-> "none", pulse |-> FALSE]
  ELSE [ring |-> addWarrantyIndicator(d), pulse |-> TRUE]

\* addWarrantyIndicator(mesh, warrantyExpiry) as a whole: the ring added to the
\* mesh ("none": no ring) and whether a pulse tween is started on it; hasExpiry
\* is FALSE for a null, absent or empty warrantyExpiry
warrantyIndicator(hasExpiry, d) ==
  IF ~hasExpiry \/ addWarrantyIndicator(d) = "none"
  THEN [ring |-> "none", pulse |-> FALSE]
  ELSE [ring |-> addWarrantyIndicator(d), pulse |-> d < 30]

\* showInfoPanel: status text, dot and health bar
ShowHealthStatus ==
  /\ rendered' = [rendered EXCEPT !.status =
                    {[label |-> getHealthInfo(health).label, hex |-> getHealthInfo(health).hex]}]
  /\ UNCHANGED << setup, health, daysRemaining, programVars, nodeView, materialGraph >>

\* select3DMesh: the emissive colour of the selected mesh
TintSelected ==
  /\ rendered' = [rendered EXCEPT !.emissive = {getHealthInfo(health).three}]
  /\ UNCHANGED << setup, health, daysRemaining, programVars, nodeView, materialGraph >>

\* buildDatasheet: the badge of the device's row
DatasheetBadge ==
  /\ rendered' = [rendered EXCEPT !.badge =
                    {[cls |-> getHealthInfo(health).cls, hex |-> getHealthInfo(health).hex]}]
  /\ UNCHANGED << setup, health, daysRemaining, programVars, nodeView, materialGraph >>

\* buildDatasheet: the summary counts
DatasheetCounts ==
  /\ rendered' = [rendered EXCEPT !.counts = {datasheetCounts(health)}]
  /\ UNCHANGED << setup, health, daysRemaining, programVars, nodeView, materialGraph >>

\* renderNodeView: the device's node
DrawNode ==
  /\ rendered' = [rendered EXCEPT !.node = {drawNode(health)}]
  /\ UNCHANGED << setup, health, daysRemaining, programVars, nodeView, materialGraph >>

\* renderNodeView: the floor overview
OverviewCounts ==
  /\ rendered' = [rendered EXCEPT !.overview = {overviewCounts(health)}]
  /\ UNCHANGED << setup, health, daysRemaining, programVars, nodeView, materialGraph >>

\* showInfoPanel: the warranty section
ShowWarrantyStatus ==
  /\ rendered' = [rendered EXCEPT !.warrantyPanel = {getWarrantyStatus(daysRemaining)}]
  /\ UNCHANGED << setup, health, daysRemaining, programVars, nodeView, materialGraph >>

\* showDeviceInfoWithWarranty of warranty-system.js
showDeviceInfoWithWarranty ==
  /\ rendered' = [rendered EXCEPT !.warrantyDetails =
                    {warrantySystemGetWarrantyStatus(daysRemaining)}]
  /\ UNCHANGED << setup, health, daysRemaining, programVars, nodeView, materialGraph >>

\* spawnDeviceFromDatabase: the warranty ring of the new instance
AddWarrantyIndicator ==
  /\ rendered' = [rendered EXCEPT !.ring = {addWarrantyIndicator(daysRemaining)}]
  /\ UNCHANGED << setup, health, daysRemaining, programVars, nodeView, materialGraph >>

\* spawnDeviceFromDatabase: what addWarrantyIndicator attaches to the clone
SpawnIndicator(hasExpiry) ==
  /\ rendered' = [rendered EXCEPT !.indicator =
                    {[hasExpiry |-> hasExpiry,
                      ring |-> warrantyIndicator(hasExpiry, daysRemaining).ring,
                      pulse |-> warrantyIndicator(hasExpiry, daysRemaining).pulse]}]
  /\ UNCHANGED << setup, health, daysRemaining, programVars, nodeView, materialGraph >>

\* ------------------------------------------------------------ material ownership
\* The same spawn, select and deselect code as above, seen as operations on
\* material OBJECTS: g.heap[id] is the state of material object id, g.mesh[m]
\* names the objects that mesh m's .material and .userData.originalMat refer
\* to.  Mesh 1 is the template, every later mesh a clone of it.

\* spawnDeviceFromDatabase of the earlier copy of the program (main.js 586-642):
\* the clone keeps referring to the template's material object; only
\* clone.userData.originalMat = clone.material.clone() is a new object
spawnMaterialsEarlier(g) ==
  LET shared == g.mesh[1].material
  IN [g EXCEPT !.heap = Append(@, g.heap[shared]),
               !.mesh = Append(@, [material |-> shared, originalMat |-> Len(g.heap) + 1])]

\* model.traverse: child.material = child.material.clone();
\* child.userData.originalMat = child.material.clone()
traverseMaterials(g) ==
  [g EXCEPT !.heap = g.heap \o << g.heap[1], g.heap[1] >>,
            !.mesh = << [material |-> Len(g.heap) + 1, originalMat |-> Len(g.heap) + 2] >>]

\* spawnDeviceFromDatabase: templateMesh.clone() refers to the template's
\* material object; clone.material = clone.material.clone();
\* clone.userData.originalMat = clonedMaterial.clone()
spawnMaterials(g) ==
  LET shared == g.mesh[1].material
  IN [g EXCEPT !.heap = g.heap \o << g.heap[shared], g.heap[shared] >>,
               !.mesh = Append(@, [material |-> Len(g.heap) + 1, originalMat |-> Len(g.heap) + 2])]

\* deselectAll3D: selectedMesh.material = selectedMesh.userData.originalMat.clone()
deselectMaterials(g) ==
  IF g.selectedMesh = NULL THEN g
  ELSE [g EXCEPT !.heap = Append(@, g.heap[g.mesh[g.selectedMesh].originalMat]),
                 !.mesh[g.selectedMesh].material = Len(g.heap) + 1,
                 !.selectedMesh = NULL]

\* select3DMesh: deselectAll3D(false); mesh.material.emissive = new THREE.Color(h.three)
selectMaterials(g, m) ==
  LET d == deselectMaterials(g)
  IN [d EXCEPT !.heap[d.mesh[m].material] = "emissive", !.selectedMesh = m]

MaterialsLoaded ==
  /\ materialGraph.mesh = << >>
  /\ materialGraph' = traverseMaterials(materialGraph)
  /\ UNCHANGED << setup, health, daysRemaining, rendered, nodeView, programVars >>

MaterialsSpawn ==
  /\ Len(materialGraph.mesh) \in 1..(MaxMeshes - 1)
  /\ Len(materialGraph.heap) + 2 <= MaxMaterials
  /\ materialGraph' = spawnMaterials(materialGraph)
  /\ UNCHANGED << setup, health, daysRemaining, rendered, nodeView, programVars >>

MaterialsSpawnEarlier ==
  /\ Len(materialGraph.mesh) \in 1..(MaxMeshes - 1)
  /\ Len(materialGraph.heap) + 1 <= MaxMaterials
  /\ materialGraph' = spawnMaterialsEarlier(materialGraph)
  /\ UNCHANGED << setup, health, daysRemaining, rendered, nodeView, programVars >>

MaterialsSelect(m) ==
  /\ m \in 1..Len(materialGraph.mesh)
  /\ Len(materialGraph.heap) + 1 <= MaxMaterials
  /\ materialGraph' = selectMaterials(materialGraph, m)
  /\ UNCHANGED << setup, health, daysRemaining, rendered, nodeView, programVars >>

MaterialsDeselect ==
  /\ materialGraph.selectedMesh # NULL
  /\ Len(materialGraph.heap) + 1 <= MaxMaterials
  /\ materialGraph' = deselectMaterials(materialGraph)
  /\ UNCHANGED << setup, health, daysRemaining, rendered, nodeView, programVars >>

\* ------------------------------------------------------------ specifications
\* Asset load and facility load, with the facility configurations the service
\* may hold: part of every specification.
CoreWith(configs) ==
  \/ GLTFLoaded
  \/ \E t \in tasks : ServerFail(t)
  \/ \E t \in tasks, cfg \in configs : AnswerFetchWarehouse(t, cfg)
  \/ \E t \in tasks : AnswerFetchDevices(t)
  \/ \E t \in tasks : FetchWarehouseDone(t)
  \/ \E t \in tasks : FetchDevicesDone(t)

Core == CoreWith(Configs)

\* The twin's life cycle: spawn, select, delete, bulk import.
Next ==
  \/ Core
  \/ \E m \in 1..MaxMeshes : WindowClick(m)
  \/ DeleteClick
  \/ \E t \in tasks : AnswerDelete(t)
  \/ \E t \in tasks : DeleteDone(t)
  \/ \E m \in 1..MaxMeshes : FadeComplete(m)
  \/ ExcelUploadStart
  \/ \E t \in tasks, type \in Types, n \in 0..1, success \in BOOLEAN : AnswerUpload(t, type, n, success)
  \/ \E t \in tasks : ExcelUploadDone(t)
  \/ \E t \in tasks : ReloadDone(t)

Spec == Init /\ [][Next]_vars

\* Bulk import and reload under the render loop.
NextReload ==
  \/ CoreWith({ cfg \in Configs : cfg.floor_height = 0 })
  \/ ExcelUploadStart
  \/ \E t \in tasks, type \in Types, n \in 0..1, success \in BOOLEAN : AnswerUpload(t, type, n, success)
  \/ \E t \in tasks : ExcelUploadDone(t)
  \/ \E t \in tasks : ReloadDone(t)
  \/ Animate

SpecReload == Init /\ [][NextReload]_vars

\* Selection and deletion.
NextSelection ==
  \/ Core
  \/ \E m \in 1..MaxMeshes : WindowClick(m)
  \/ \E q \in Queries : SearchBtn(q.byName, q.name, q.serial)
  \/ ClosePanel
  \/ ViewToggle
  \/ \E v \in 0..HtmlFloors : FloorSelectChange(v)
  \/ DeleteClick
  \/ \E t \in tasks : AnswerDelete(t)
  \/ \E t \in tasks : DeleteDone(t)
  \/ \E m \in 1..MaxMeshes : FadeComplete(m)

SpecSelection == InitWith(MaxDevices) /\ [][NextSelection]_vars

\* Create by drop.
NextDrop ==
  \/ Core
  \/ \E m \in 1..MaxMeshes : WindowClick(m)
  \/ DeleteClick
  \/ \E t \in tasks : AnswerDelete(t)
  \/ \E t \in tasks : DeleteDone(t)
  \/ \E m \in 1..MaxMeshes : FadeComplete(m)
  \/ \E typeKey \in Types, position \in Positions : Drop(typeKey, position)
  \/ \E t \in tasks : AnswerProducts(t)
  \/ \E t \in tasks : ProductsDone(t)
  \/ \E t \in tasks : AnswerCreate(t)
  \/ \E t \in tasks : CreateDone(t)

SpecDrop == Init /\ [][NextDrop]_vars

\* Repositioning a device.
NextPosition ==
  \/ CoreWith({ cfg \in Configs : cfg.floor_height = 0 })
  \/ \E m \in 1..MaxMeshes : WindowClick(m)
  \/ \E valid \in BOOLEAN, pos \in Positions : UpdatePositionClick(valid, pos)
  \/ \E t \in tasks : AnswerPut(t)
  \/ \E t \in tasks : SavePositionDone(t)
  \/ KeyD
  \/ \E dx \in {0 - speed, 0, speed}, dz \in {0 - speed, 0, speed} : KeyArrow(dx, dz)
  \/ KeyS
  \/ \E t \in tasks : KeySaveSettled(t)

SpecPosition == Init /\ [][NextPosition]_vars

\* The views of one device's health score, for every score.
NextHealth ==
  \/ ShowHealthStatus
  \/ TintSelected
  \/ DatasheetBadge
  \/ DatasheetCounts
  \/ DrawNode
  \/ OverviewCounts

SpecHealth == InitTwin(0) /\ ViewsWith(0..MaxScore, {MaxDays}) /\ [][NextHealth]_vars

\* The views of one device's warranty, for every whole number of days remaining.
NextWarranty ==
  \/ ShowWarrantyStatus
  \/ showDeviceInfoWithWarranty
  \/ AddWarrantyIndicator
  \/ \E hasExpiry \in BOOLEAN : SpawnIndicator(hasExpiry)

SpecWarranty ==
  InitTwin(0) /\ ViewsWith({MaxScore}, (0 - MaxDays)..MaxDays) /\ [][NextWarranty]_vars

\* Positions the floor checks give a device: the ground, 5 m and 10 m up.
FloorPositions == Positions \cup { [x |-> 0, y |-> 20, z |-> 0] }

\* Floors: a facility of two floors of 4 m, selection, floor selector,
\* position update.
NextFloor ==
  \/ CoreWith({ cfg \in Configs : cfg.floor_height # 0 })
  \/ \E m \in 1..MaxMeshes : WindowClick(m)
  \/ ClosePanel
  \/ \E v \in 0..HtmlFloors : FloorSelectChange(v)
  \/ \E valid \in BOOLEAN, pos \in FloorPositions : UpdatePositionClick(valid, pos)
  \/ \E t \in tasks : AnswerPut(t)
  \/ \E t \in tasks : SavePositionDone(t)

SpecFloor == Init /\ [][NextFloor]_vars

\* Panning the 2D viewport: drag, view toggle, resize; closing the panel
\* resets the 3D camera.
NextViewport ==
  \/ ViewToggle
  \/ \E p \in CursorPoints : NodeMouseDown(p)
  \/ \E p \in CursorPoints : NodeMouseMove(p)
  \/ NodeMouseUp
  \/ WindowResize
  \/ ClosePanel

SpecViewport == InitWith(0) /\ [][NextViewport]_vars

\* Zooming the 2D viewport.
NextZoom ==
  \/ ViewToggle
  \/ \E deltaYPositive \in BOOLEAN : NodeWheel(deltaYPositive)
  \/ WindowResize
  \/ ClosePanel

SpecZoom == InitWith(0) /\ [][NextZoom]_vars

\* Where the cursor is put when drawing and hit-testing are compared, and where
\* a device is moved to: in front of the origin, and up to the second floor.
HoverPoints == { [x |-> CanvasCentre.x, y |-> CanvasCentre.y - 10],
                 [x |-> CanvasCentre.x + 17, y |-> CanvasCentre.y] }

ProjectionPositions == { [x |-> 0, y |-> 0, z |-> 1], [x |-> 0, y |-> 20, z |-> 0] }

\* The zoom scales followed there: within a tenth of the scale 1.
NearScales == ((9 * ScaleUnit) \div 10)..((11 * ScaleUnit) \div 10)

\* Drawing against hit-testing under pan, zoom, floor change and position
\* update of the template device (a facility without persisted devices).
NextProjection ==
  \/ CoreWith({ cfg \in Configs : cfg.floor_height = 0 })
  \/ \E m \in 1..MaxMeshes : WindowClick(m)
  \/ \E pos \in ProjectionPositions : UpdatePositionClick(TRUE, pos)
  \/ \E v \in 1..2 : FloorSelectChange(v)
  \/ ViewToggle
  \/ \E p \in HoverPoints : NodeMouseDown(p)
  \/ \E p \in HoverPoints : NodeMouseMove(p)
  \/ NodeMouseUp
  \/ \E deltaYPositive \in BOOLEAN : NodeWheel(deltaYPositive) /\ nodeView'.scale \in NearScales

SpecProjection == InitWith(0) /\ [][NextProjection]_vars

\* ------------------------------------------------------------ setup wizard steps
SetupFrame == UNCHANGED << health, daysRemaining, rendered, nodeView, materialGraph, programVars >>

\* The user edits a field of step 1.
TypeInto(field, text) ==
  /\ setup' = [setup EXCEPT !.form[field] = text]
  /\ SetupFrame

NextStepClick ==
  /\ setup' = nextStep(setup)
  /\ SetupFrame

PrevStepClick ==
  /\ setup' = prevStep(setup)
  /\ SetupFrame

SelectUploadMethodClick(method) ==
  /\ setup' = selectUploadMethod(setup, method)
  /\ SetupFrame

\* The other fields of step 1 are left empty or filled with a padded text.
OtherTexts == { << >>, << " ", "a" >> }

\* The setup wizard page.
NextSetup ==
  \/ \E text \in Texts : TypeInto("warehouseName", text)
  \/ \E field \in {"customerName", "location"}, text \in OtherTexts : TypeInto(field, text)
  \/ NextStepClick
  \/ PrevStepClick
  \/ \E method \in UploadMethods : SelectUploadMethodClick(method)

SpecSetup == InitWith(0) /\ [][NextSetup]_vars

\* Hit-testing in the 2D view: a device is moved next to the template it was
\* cloned from, then the canvas is hovered and clicked.
NextHitTest ==
  \/ CoreWith({ cfg \in Configs : cfg.floor_height = 0 })
  \/ \E m \in 1..MaxMeshes : WindowClick(m)
  \/ \E pos \in Positions : UpdatePositionClick(TRUE, pos)
  \/ \E t \in tasks : AnswerPut(t)
  \/ \E t \in tasks : SavePositionDone(t)
  \/ ViewToggle
  \/ \E p \in CursorPoints : NodeMouseMove(p)
  \/ \E p \in CursorPoints : NodeClick(p)

SpecHitTest == Init /\ [][NextHitTest]_vars

\* Material objects under asset load, spawn, select and deselect.
NextMaterials ==
  \/ MaterialsLoaded
  \/ MaterialsSpawn
  \/ \E m \in 1..MaxMeshes : MaterialsSelect(m)
  \/ MaterialsDeselect

SpecMaterials == InitWith(0) /\ [][NextMaterials]_vars

\* main.js holds two copies of the program.  Everything above follows the
\* later, complete one (from line 1065); this is the earlier one (lines
\* 1-1064) where its code differs.
NextEarlierCopy ==
  \/ MaterialsLoaded
  \/ MaterialsSpawnEarlier
  \/ \E m \in 1..MaxMeshes : MaterialsSelect(m)
  \/ MaterialsDeselect
  \/ \E v \in 0..HtmlFloors : FloorSelectChangeEarlier(v)

SpecEarlierCopy == InitWith(0) /\ [][NextEarlierCopy]_vars

\* ------------------------------------------------------------ properties
InPool(m) == m \in Range(interactableMeshes)

\* The step completes (resumes and ends) the handler suspended in task t.
Completes(t) == t \in tasks /\ t.phase = "answered" /\ t \notin tasks'

\* C1: the update-position action does not move the selected mesh before the
\* PUT has confirmed success: the step that issues the PUT leaves the mesh's
\* world position as it was.
C1_PositionOnlyAfterConfirm ==
  [][\A t \in tasks' \ tasks :
       t.kind = "savePos" => meshes'[t.mesh].position = meshes[t.mesh].position]_vars

\* C2: a mutating call that failed is not reported as a success: the step that
\* resumes the update-position handler after a PUT that failed (service
\* unreachable or non-2xx) does not show the "position saved" message.
C2_NoSuccessMessageOnFailure ==
  [][\A t \in tasks : (t.kind = "savePos" /\ Completes(t) /\ ~t.ok)
                         => lastAlert' # "position_saved_to_database"]_vars

\* Mesh m carries a selection highlight: its material is emissive and is not
\* its original snapshot.
Highlighted(m) == meshes[m].material = "emissive" /\ meshes[m].material # meshes[m].originalMat

\* C3: at most one instance of the pool is in highlighted (emissive) state, and
\* it is the selected one; every other instance has its original material.
C3_AtMostOneHighlighted ==
  LET lit == { m \in Range(interactableMeshes) : Highlighted(m) }
  IN /\ Cardinality(lit) <= 1
     /\ state3D.selectedMesh # NULL => lit \subseteq { state3D.selectedMesh }

\* C4: at most one visual instance per device key, in interactableMeshes and
\* in the scene.
C4_OneInstancePerKey ==
  \A i, j \in 1..Len(meshes) :
    (i # j /\ meshes[i].dbKey = meshes[j].dbKey)
      => /\ ~(InPool(i) /\ InPool(j))
         /\ ~(meshes[i].inScene /\ meshes[j].inScene)

\* C5: no mesh is in the scene while the registry has no entry for its key.
C5_InstanceNeverOutlivesViewModel ==
  \A m \in 1..Len(meshes) : meshes[m].inScene => DbHas(DEVICE_DB, meshes[m].dbKey)

\* C7: no device stays in the pending queue: once the asset is loaded and no
\* handler is suspended any more, the queue is empty.
C7_QueueDrained ==
  (glbLoaded /\ tasks = {}) => pendingDatabaseDevices = << >>

\* C8: the completion of a delete whose target is no longer in the twin is a
\* no-op (registry and interactableMeshes unchanged, no further disposal of the
\* mesh), and a completion never clears the selection of another device.
C8_StaleCompletionIsNoOp ==
  [][\A t \in tasks : (t.kind = "delete" /\ Completes(t)) =>
       /\ ~InPool(t.mesh) =>
            /\ DEVICE_DB' = DEVICE_DB
            /\ interactableMeshes' = interactableMeshes
            /\ meshes'[t.mesh].fade = meshes[t.mesh].fade
       /\ state3D.selectedMesh # t.mesh => state3D'.selectedMesh = state3D.selectedMesh]_vars

\* C9: right after a successful delete the key is absent from DEVICE_DB, the
\* mesh is absent from interactableMeshes, its disposal is under way, and
\* select3DByKey(key) changes nothing.
C9_DeletedKeyIsGone ==
  [][\A m \in 1..Len(meshes) :
       (meshes'[m].fade > meshes[m].fade) =>
          LET key == meshes[m].dbKey
              post == Sel(meshes', state3D', infoPanel', floorPlaneConstant',
                          floorSelectValue', floorOptions')
              r == select3DByKey(post, DEVICE_DB', interactableMeshes', key, FLOOR_HEIGHT')
          IN /\ ~DbHas(DEVICE_DB', key)
             /\ m \notin Range(interactableMeshes')
             /\ r.s = post /\ r.thrown = "none"]_vars

\* C10: a blink tween runs if and only if a device is selected; it targets the
\* selected instance and it is the only one.
C10_BlinkOwnedBySelection ==
  LET running == { m \in 1..Len(meshes) : meshes[m].blink > 0 }
  IN IF state3D.selectedMesh = NULL
     THEN running = {}
     ELSE running = { state3D.selectedMesh } /\ meshes[state3D.selectedMesh].blink = 1

\* C11: select3DByKey on a key that has no instance in interactableMeshes
\* (unknown, pending or deleted) changes nothing (meshes and their highlight,
\* selection, info panel, floor filter) and raises no error.
C11_SelectMissingKeyIsNoOp ==
  \A key \in Keys :
    FindByKey(meshes, interactableMeshes, key) = NULL
      => select3DByKey(CurSel, DEVICE_DB, interactableMeshes, key, FLOOR_HEIGHT)
           = [s |-> CurSel, thrown |-> "none"]

\* A device is selected and highlighted while the key of a deleted device has
\* no instance left in the pool.
C11_Witness ==
  /\ state3D.selectedMesh # NULL
  /\ meshes[state3D.selectedMesh].material = "emissive"
  /\ \E m \in 1..Len(meshes) :
       /\ meshes[m].disposed > 0
       /\ meshes[m].dbKey \in Keys
       /\ FindByKey(meshes, interactableMeshes, meshes[m].dbKey) = NULL

\* C12: an operation on a mesh whose key is absent from DEVICE_DB is a no-op:
\* no step raises a TypeError by reading the missing entry, and no step makes
\* such a mesh the selected one.
C12_MissingViewModelIsNoOp ==
  [][\A m \in Range(interactableMeshes) :
       ~DbHas(DEVICE_DB, meshes[m].dbKey)
         => /\ thrown' # "TypeError"
            /\ state3D'.selectedMesh = m => state3D.selectedMesh = m]_vars

\* The entries of a registry whose key has no db_ prefix (template-only devices).
TemplateEntries(db) == SelectSeq(db, LAMBDA e : e.key.tag # "db_")

\* C13: the bulk reload leaves every template-only registry entry and every
\* template mesh as it was, and replaces the db_ entries by the fetched list:
\* afterwards the db_ keys of DEVICE_DB are exactly those of the fetched devices.
C13_ReloadReplacesOnlyPersisted ==
  [][\A t \in tasks : (t.kind = "reloadDevices" /\ Completes(t)) =>
       /\ TemplateEntries(DEVICE_DB') = TemplateEntries(DEVICE_DB)
       /\ \A m \in 1..Len(meshes) :
            meshes[m].name.tag # "db_"
              => /\ meshes'[m] = meshes[m]
                 /\ InPool(m) <=> m \in Range(interactableMeshes')
       /\ PersistedKeys(DEVICE_DB') = { DbKey(t.rows[i].id) : i \in 1..Len(t.rows) }]_vars

\* C14: when a bulk import that reported installed_count = n and no errors has
\* reloaded the twin, DEVICE_DB holds exactly n more db_ keys than before.
C14_RegistryGrowsByInstalledCount ==
  [][\A t \in tasks : (t.kind = "reloadDevices" /\ Completes(t)) =>
       Cardinality(PersistedKeys(DEVICE_DB'))
         = Cardinality(PersistedKeys(DEVICE_DB)) + t.count]_vars

\* C15: when a bulk import completes with per-row errors after installing some
\* rows, the errors are reported and the twin is reloaded: the step that
\* resumes the handler shows the errors and issues the reload fetch.
C15_PartialImportIsReloaded ==
  [][\A t \in tasks :
       (t.kind = "upload" /\ Completes(t) /\ t.ok /\ ~t.success /\ t.count > 0)
         => /\ lastAlert' = "upload_completed_with_errors"
            /\ \E r \in tasks' : r.kind = "reloadDevices"]_vars

\* C16: no failure of a Persistence Service call escapes as an unhandled
\* promise rejection: no handler ends with one.
C16_NoUnhandledRejection == thrown # "unhandled_rejection"

\* C17: spawning the same backing device more than once is idempotent on the
\* registry: no two entries of DEVICE_DB share a key, and the entry of a
\* backing device id is always the one under db_<id>.
C17_OneEntryPerBackingId ==
  /\ \A i, j \in 1..Len(DEVICE_DB) : DEVICE_DB[i].key = DEVICE_DB[j].key => i = j
  /\ \A i \in 1..Len(DEVICE_DB) :
       DEVICE_DB[i].db_id # NULL => DEVICE_DB[i].key = DbKey(DEVICE_DB[i].db_id)

\* a backing device that was spawned twice, with its registry entry
C17_Witness ==
  \E m1, m2 \in 1..Len(meshes) :
    /\ m1 # m2
    /\ meshes[m1].name.tag = "db_"
    /\ meshes[m2].name = meshes[m1].name
    /\ DbHas(DEVICE_DB, meshes[m1].name)

\* C18: getHealthInfo(score) is Healthy for score >= 80, Warning for
\* 50 <= score < 80 and Critical for score < 50, for every score of 0..100;
\* the tier never goes down when the score goes up, and the boundaries are
\* exact (80 Healthy, 79 Warning, 50 Warning, 49 Critical).
TierRank(label) == CASE label = "Critical" -> 0 [] label = "Warning" -> 1 [] label = "Healthy" -> 2

C18_HealthTiers ==
  LET h == getHealthInfo(health)
  IN /\ h.label = "Healthy" <=> health >= 80
     /\ h.label = "Warning" <=> (50 <= health /\ health < 80)
     /\ h.label = "Critical" <=> health < 50
     /\ \A s \in 0..health : TierRank(getHealthInfo(s).label) <= TierRank(h.label)
     /\ getHealthInfo(80).label = "Healthy" /\ getHealthInfo(79).label = "Warning"
     /\ getHealthInfo(50).label = "Warning" /\ getHealthInfo(49).label = "Critical"
     /\ \A st \in rendered.status :
          st.label = (IF health >= 80 THEN "Healthy" ELSE IF health >= 50 THEN "Warning" ELSE "Critical")

\* the info panel shows a device on a tier boundary
C18_Witness ==
  /\ health \in {49, 50, 79, 80}
  /\ rendered.status # {}

\* C19: for every score of 0..100, the 2D node fill, the 2D overview counts,
\* the datasheet badge and counts and the 3D highlight tint are those of
\* getHealthInfo(score).
CountsOf(label) ==
  [healthy  |-> IF label = "Healthy" THEN 1 ELSE 0,
   warning  |-> IF label = "Warning" THEN 1 ELSE 0,
   critical |-> IF label = "Critical" THEN 1 ELSE 0]

C19_ViewsUseGetHealthInfo ==
  LET h == getHealthInfo(health)
  IN /\ rendered.status \subseteq {[label |-> h.label, hex |-> h.hex]}
     /\ rendered.emissive \subseteq {h.three}
     /\ rendered.badge \subseteq {[cls |-> h.cls, hex |-> h.hex]}
     /\ rendered.counts \subseteq {CountsOf(h.label)}
     /\ rendered.node \subseteq {h.hex}
     /\ rendered.overview \subseteq {CountsOf(h.label)}

\* C20: the warranty tier of d whole days remaining is expired for d < 0,
\* critical for 0 <= d < 30, warning for 30 <= d < 90 and healthy for
\* d >= 90, in getWarrantyStatus of main.js, in getWarrantyStatus of
\* warranty-system.js and in the ring colour of addWarrantyIndicator alike.
C20_WarrantyTiersAgree ==
  LET d == daysRemaining
      a == getWarrantyStatus(d)
      b == warrantySystemGetWarrantyStatus(d)
  IN /\ a.status = "expired" <=> d < 0
     /\ a.status = "critical" <=> (0 <= d /\ d < 30)
     /\ a.status = "warning" <=> (30 <= d /\ d < 90)
     /\ a.status = "healthy" <=> d >= 90
     /\ b.status = a.status /\ b.color = a.color
     /\ addWarrantyIndicator(d) = (IF a.status = "healthy" THEN "none" ELSE a.color)
     /\ rendered.warrantyPanel \subseteq {a}
     /\ rendered.warrantyDetails \subseteq rendered.warrantyPanel \cup {a}
     /\ rendered.ring \subseteq {IF a.status = "healthy" THEN "none" ELSE a.color}

\* all three views show a device on a tier boundary
C20_Witness ==
  /\ daysRemaining \in {-1, 0, 29, 30, 89, 90}
  /\ rendered.warrantyPanel # {}
  /\ rendered.warrantyDetails # {}
  /\ rendered.ring # {}

\* C21: spawning attaches a warranty ring to an instance iff the device has a
\* warranty expiry with fewer than 90 days remaining, and the ring pulses iff
\* fewer than 30 days remain; 10 days remaining gives a critical, pulsing
\* ring and 90 or more days give none.
C21_RingIffNotHealthy ==
  \A r \in rendered.indicator :
    /\ r.ring # "none" <=> (r.hasExpiry /\ daysRemaining < 90)
    /\ r.pulse <=> (r.hasExpiry /\ daysRemaining < 30)
    /\ (r.hasExpiry /\ daysRemaining = 10) => (r.ring = "f59e0b" /\ r.pulse)
    /\ daysRemaining >= 90 => r.ring = "none"

\* a spawned device 30 to 89 days from expiry: a ring that does not pulse
C21_Witness ==
  /\ daysRemaining \in 30..89
  /\ rendered.indicator = {[hasExpiry |-> TRUE, ring |-> "eab308", pulse |-> FALSE]}

\* What a mesh's material and its stored original look like.
MaterialState(g, m) ==
  [material |-> g.heap[g.mesh[m].material], originalMat |-> g.heap[g.mesh[m].originalMat]]

\* C22: each spawned instance owns its material: highlighting (select) and
\* restoring (deselect) one instance never changes the material state of the
\* template or of any other instance.  A select step restores the previous
\* selection and highlights the new one; every other mesh keeps the state of
\* its material and of its stored original.
C22_HighlightStaysOnInstance ==
  [][\A m \in 1..Len(materialGraph.mesh) :
       (m # materialGraph.selectedMesh /\ m # materialGraph'.selectedMesh)
         => MaterialState(materialGraph', m) = MaterialState(materialGraph, m)]_vars

\* C23: choosing floor N in the floor selector sets floorPlane.constant to
\* N x FLOOR_HEIGHT and choosing 'all' turns clipping off (with N = 3 and
\* FLOOR_HEIGHT = 6 the constant is 18).  The change event fires when the
\* selector's value changes.
C23_FloorChoiceSetsBoundary ==
  [][\A v \in 0..HtmlFloors :
       (/\ floorSelectValue' # floorSelectValue
        /\ FloorSelectChange(v) \/ FloorSelectChangeEarlier(v))
         => floorPlaneConstant' = (IF v = 0 THEN NoClip ELSE v * FLOOR_HEIGHT)]_vars

\* The selector's floor number, the clipping boundary and the 2D floor filter
\* name the same floor.
ViewsAgreeOnFloor ==
  floorSelectValue.kind = "num" =>
    /\ floorPlaneConstant = floorSelectValue.n * FLOOR_HEIGHT
    /\ currentFloorDevices =
         { k \in 1..Len(DEVICE_DB) :
             \E i \in 1..Len(interactableMeshes) :
               /\ meshes[interactableMeshes[i]].dbKey = DEVICE_DB[k].key
               /\ \A j \in 1..(i-1) : meshes[interactableMeshes[j]].dbKey # DEVICE_DB[k].key
               /\ (floorSelectValue.n - 1) * FLOOR_HEIGHT <= meshes[interactableMeshes[i]].position.y
               /\ meshes[interactableMeshes[i]].position.y < floorSelectValue.n * FLOOR_HEIGHT }

\* C24: the two views agree on the active floor: whenever the floor selector
\* holds a floor number N, floorPlane.constant is N x FLOOR_HEIGHT and the 2D
\* view admits exactly the devices whose y lies in [(N-1) x FLOOR_HEIGHT,
\* N x FLOOR_HEIGHT); this is so after every facility load, floor change,
\* selection and deselection.
C24_ViewsAgreeOnFloor ==
  [][<< floorPlaneConstant, floorSelectValue, FLOOR_HEIGHT >>'
       # << floorPlaneConstant, floorSelectValue, FLOOR_HEIGHT >> => ViewsAgreeOnFloor']_vars

\* C25: after select3DMesh(mesh) the floor filter is the selected device's
\* floor: with floorIndex = floor(center.y / FLOOR_HEIGHT) + 1,
\* floorPlane.constant is floorIndex x FLOOR_HEIGHT and the floor selector
\* shows floorIndex.  A step that makes a mesh the selection is a select3DMesh.
C25_SelectSetsFloorFilter ==
  [][(state3D'.selectedMesh # NULL /\ state3D'.selectedMesh # state3D.selectedMesh) =>
       LET floorIndex == FloorIndexOf(meshes'[state3D'.selectedMesh].position.y, FLOOR_HEIGHT')
       IN /\ floorPlaneConstant' = floorIndex * FLOOR_HEIGHT'
          /\ floorSelectValue' = FloorValue(floorIndex)]_vars

\* C26: the floor label stored in the registry (location) always equals
\* floor(y / FLOOR_HEIGHT) + 1 for the current position of the device's
\* instance, also after a position update and after FLOOR_HEIGHT is replaced.
C26_LocationFollowsWorldY ==
  \A k \in 1..Len(DEVICE_DB) :
    LET mesh == FindByKey(meshes, interactableMeshes, DEVICE_DB[k].key)
    IN mesh # NULL =>
         DEVICE_DB[k].location = FloorIndexOf(meshes[mesh].position.y, FLOOR_HEIGHT)

\* C27: getNodeAtPosition returns the device on the active floor that is
\* nearest to the cursor among those within the radius (20), the earlier one
\* in registry order when distances tie, and null when none is within the
\* radius.  Stated for every cursor position in the node view: no device on
\* the floor is strictly nearer than the one returned.
NodeDistance2(v, p, key) ==
  LET mesh == FindByKey(meshes, interactableMeshes, key)
      dx == (p.x - v.offsetX) * ScaleUnit - meshes[mesh].position.x * scale2d * v.scale
      dy == (p.y - v.offsetY) * ScaleUnit + meshes[mesh].position.z * scale2d * v.scale
  IN dx * dx + dy * dy

C27_HitTestReturnsNearest ==
  currentView = "network" => \A p \in CursorPoints :
    LET node == getNodeAtPosition(nodeView, p)
        onFloor == { DEVICE_DB[k].key : k \in currentFloorDevices }
    IN IF node = DbKey(0)
       THEN \A key \in onFloor :
              NodeDistance2(nodeView, p, key) >= HitRadius * HitRadius * nodeView.scale * nodeView.scale
       ELSE /\ node \in onFloor
            /\ \A key \in onFloor :
                 NodeDistance2(nodeView, p, key) >= NodeDistance2(nodeView, p, node)

\* C28: after any sequence of wheel events the 2D zoom scale is within
\* [minScale, maxScale] = [0.3, 3]; the scale changes only by a wheel step of
\* 0.9 or 1.1, so a step whose result would leave the range leaves the scale
\* as it was.
C28_ZoomWithinRange ==
  /\ [](/\ nodeView.minScale = (3 * ScaleUnit) \div 10
        /\ nodeView.maxScale = 3 * ScaleUnit
        /\ nodeView.scale >= nodeView.minScale
        /\ nodeView.scale <= nodeView.maxScale)
  /\ [][nodeView'.scale # nodeView.scale =>
          nodeView'.scale \in { (nodeView.scale * 9) \div 10, (nodeView.scale * 11) \div 10 }]_vars

\* The scale has been zoomed out as far as it goes: one more step of 0.9 would
\* leave the range.
C28_Witness ==
  /\ currentView = "network"
  /\ nodeView.scale < ScaleUnit
  /\ (nodeView.scale * 9) \div 10 < nodeView.minScale
  /\ wheel(nodeView, TRUE) = nodeView

\* C29: the 2D viewport persists across view toggles: coming back to the node
\* view from the 3D view leaves the pan offset and the zoom scale as the user
\* left them, and steps taken in the 3D view never change them.  (The very
\* first switch to the node view, from the offset (0, 0) the program starts
\* with, is the initial centring and is not counted.)
C29_ViewportPersists ==
  [][(currentView = "3d" /\ << nodeView.offsetX, nodeView.offsetY >> # << 0, 0 >>) =>
       /\ nodeView'.offsetX = nodeView.offsetX
       /\ nodeView'.offsetY = nodeView.offsetY
       /\ nodeView'.scale = nodeView.scale]_vars

\* C30: if the reload fetch of the device list fails after a bulk import that
\* the service reported as successful, the twin is left as it was (no
\* persisted device leaves DEVICE_DB or interactableMeshes) and the failure is
\* reported.  fetchDevices writes the failure to the console, which is taken
\* as the report; the formula states the part about the twin.
C30_FailedReloadLeavesTwin ==
  [][\A t \in tasks : (t.kind = "reloadDevices" /\ ~t.ok /\ Completes(t)) =>
       /\ PersistedKeys(DEVICE_DB) \subseteq PersistedKeys(DEVICE_DB')
       /\ \A m \in Range(interactableMeshes) :
            meshes[m].name.tag = "db_" => m \in Range(interactableMeshes')]_vars

\* C31: in the bulk reload, clearing the persisted entries and meshes and
\* respawning the fetched devices are one step after the last suspension
\* point: when the step is over every fetched device is either spawned
\* (registry entry and instance in interactableMeshes) or queued, and no
\* render frame finds a persisted key in the registry without its instance in
\* interactableMeshes or the other way round.
C31_ReloadIsOneStep ==
  /\ [](\A f \in rendered.frame : f.registry = f.pool)
  /\ [][\A t \in tasks : (t.kind = "reloadDevices" /\ Completes(t)) =>
          \A i \in 1..Len(t.rows) :
            LET key == DbKey(t.rows[i].id)
            IN /\ DbHas(DEVICE_DB', key) <=> FindByKey(meshes', interactableMeshes', key) # NULL
               /\ DbHas(DEVICE_DB', key) \/ t.rows[i] \in Range(pendingDatabaseDevices')]_vars

\* A frame rendered after an import has been reloaded: it shows the imported
\* device db_2 in the registry and in interactableMeshes.
C31_Witness ==
  /\ lastAlert = "installed_devices"
  /\ \A t \in tasks : t.kind # "reloadDevices"
  /\ \E f \in rendered.frame : DbKey(2) \in f.registry /\ DbKey(2) \in f.pool

\* C32: after a device's instance has been disposed no repeating animation
\* that targets it is still running.  Stated for the highlight blink tween,
\* the animation the twin's meshes carry: a disposed mesh has no running blink
\* tween.
C32_NoAnimationOnDisposed ==
  \A m \in 1..Len(meshes) : meshes[m].disposed > 0 => meshes[m].blink = 0

\* The cursor p is inside the disc of the hit radius, scaled with the view,
\* around a centre drawn at c (thousandths of a pixel).
InDrawnDisc(v, p, c) ==
  LET dx == p.x * ScaleUnit - c.x
      dy == p.y * ScaleUnit - c.y
      r == HitRadius * v.scale
  IN /\ dx < r /\ 0 - dx < r
     /\ dy < r /\ 0 - dy < r
     /\ dx * dx + dy * dy < r * r

\* C33: for every device and every pan/zoom state the 2D hit-test locates a
\* device where the renderer draws it: the node returned for a cursor position
\* is the first one, in registry order, among the nodes drawn for the current
\* floor whose drawn disc holds the cursor (null if there is none); and a step
\* that pans or zooms leaves every stored position as it was.
C33_HitTestMatchesDrawing ==
  /\ [](currentView = "network" =>
          \A p \in HoverPoints :
            LET under == { k \in currentFloorDevices : InDrawnDisc(nodeView, p, drawnCentre(nodeView, k)) }
                node == getNodeAtPosition(nodeView, p)
            IN IF under = {}
               THEN node = DbKey(0)
               ELSE node = DEVICE_DB[CHOOSE k \in under : \A j \in under : k <= j].key)
  /\ [][nodeView' # nodeView =>
          /\ Len(meshes') = Len(meshes)
          /\ \A m \in 1..Len(meshes) : meshes'[m].position = meshes[m].position]_vars

\* The view is panned and zoomed and the cursor is over a device that lies in
\* front of the origin (z # 0).
C33_Witness ==
  /\ currentView = "network"
  /\ nodeView.offsetX # CanvasCentre.x
  /\ nodeView.scale # ScaleUnit
  /\ nodeView.hoveredNode # DbKey(0)
  /\ LET mesh == FindByKey(meshes, interactableMeshes, nodeView.hoveredNode)
     IN mesh # NULL /\ meshes[mesh].position.z # 0

\* The info panel shows a device (infoPanel is a key, not "hidden").
PanelShown == ToString(infoPanel) # ToString("hidden")

\* C34: whenever the info panel is shown, the device whose data it shows is
\* the selected device (state3D.selectedMesh), the one the Delete and Update
\* Position buttons act on; also when a node of the 2D view was clicked.
C34_PanelShowsSelection ==
  PanelShown =>
    /\ state3D.selectedMesh # NULL
    /\ meshes[state3D.selectedMesh].dbKey = infoPanel

\* C35: the keys of DEVICE_DB and the dbKeys of the meshes in
\* interactableMeshes are the same set after any sequence of asset load,
\* facility load, spawn, delete and bulk reload.
C35_RegistryMatchesPool ==
  { DEVICE_DB[k].key : k \in 1..Len(DEVICE_DB) }
    = { meshes[m].dbKey : m \in Range(interactableMeshes) }

\* C36: state3D.selectedMesh, when not null, is a mesh that is in
\* interactableMeshes and whose key is in DEVICE_DB.
C36_SelectionIsLive ==
  state3D.selectedMesh # NULL =>
    /\ state3D.selectedMesh \in Range(interactableMeshes)
    /\ DbHas(DEVICE_DB, meshes[state3D.selectedMesh].dbKey)

\* C38: an instance spawned from a template never inherits the template's
\* selection highlight: the originalMat snapshot of every spawned (db_) mesh is
\* the un-highlighted material, and a spawned mesh shows the emissive material
\* only while it is the selected mesh itself.
C38_SpawnDoesNotInheritHighlight ==
  \A m \in 1..Len(meshes) :
    meshes[m].name.tag = "db_" =>
      /\ meshes[m].originalMat = "plain"
      /\ (meshes[m].material = "emissive" /\ meshes[m].inScene /\ meshes[m].fade = 0
            => state3D.selectedMesh = m)

\* The floors the 2D filter can be set to through the selector: one per floor
\* option, and 1 for 'all' and for the empty value (parseInt(...) || 1).
SelectableFloors == {1} \cup (1..floorOptions)

\* C39: every device that has a visual instance is shown in the 2D node view
\* for at least one value of the floor selector, and while the selector holds
\* 'all' the 2D view hides no such device by floor.
C39_EveryDeviceShownOnSomeFloor ==
  \A k \in 1..Len(DEVICE_DB) :
    LET dbDevice == FindByKey(meshes, interactableMeshes, DEVICE_DB[k].key)
    IN dbDevice # NULL =>
         /\ FloorIndexOf(meshes[dbDevice].position.y, FLOOR_HEIGHT) \in SelectableFloors
         /\ floorSelectValue = AllFloors => k \in currentFloorDevices

\* C40: in the setup wizard currentStep stays in {1, 2, 3} under any sequence
\* of nextStep and prevStep; step 2 or 3 is reached only with a non-empty
\* warehouseConfig.name, and step 3 only with an upload method chosen.
C40_WizardStepsGuarded ==
  /\ setup.currentStep \in {1, 2, 3}
  /\ setup.currentStep >= 2 => setup.warehouseConfig.name # << >>
  /\ setup.currentStep = 3 => setup.warehouseConfig.uploadMethod # NoMethod

\* Step 3 is reached, and the name field has been blanked since step 1 passed.
C40_Witness ==
  /\ setup.currentStep = 3
  /\ setup.form.warehouseName = << " " >>
  /\ setup.warehouseConfig.uploadMethod = "manual"

====
